---- MODULE Spec2Model ----
(***************************************************************************)
(* Model of src/graph.py: class Graph (adjacency lists kept in a           *)
(* defaultdict(list), a separate set of vertices, a directed flag) and its *)
(* traversal and path queries.                                             *)
(*                                                                         *)
(* An adjacency list is a sequence of <<neighbor, weight>> pairs, in       *)
(* insertion order.  self.graph is a function whose DOMAIN is the key set  *)
(* of the defaultdict: reading self.graph[x] for a missing x inserts the   *)
(* key x with an empty list, and every operation below models that.        *)
(***************************************************************************)
EXTENDS Integers, Sequences, FiniteSets, TLC

VARIABLES directed, vertices, graph, last, ret, driver, frame

vars == <<directed, vertices, graph, last, ret, driver, frame>>

----------------------------------------------------------------------------
(* Bounds and input sets *)

\* most add_edge calls on one Graph under Spec
MaxEdges == 2

\* most add_edge calls on one Graph under SpecPaths (client driver)
MaxPathEdges == 3

Core == {"A", "B", "C"}
Vertex == {"A", "B", "C", "D", "E"}
Weights == {1, 3}

\* def add_edge(self, u, v, weight=1)
DefaultWeight == 1
NoVertex == "-"

\* the edges of the chain A-B-C-D-E, as add_edge may be called for them
ChainPairs == {<<"A", "B">>, <<"B", "C">>, <<"C", "D">>, <<"D", "E">>,
               <<"B", "A">>, <<"C", "B">>, <<"D", "C">>, <<"E", "D">>}

----------------------------------------------------------------------------
(* defaultdict(list) *)

\* value of self.graph[x]: the stored list, or the fresh empty list
Lookup(g, x) == IF x \in DOMAIN g THEN g[x] ELSE <<>>

\* side effect of reading self.graph[x]: a missing key is inserted
Touch(g, x) == IF x \in DOMAIN g THEN g ELSE g @@ (x :> <<>>)

\* side effect of reading self.graph[x] for every x of S
TouchAll(g, S) == [x \in (DOMAIN g) \cup S |-> Lookup(g, x)]

\* self.graph[x] = list
Store(g, x, list) == [y \in (DOMAIN g) \cup {x} |-> IF y = x THEN list ELSE g[y]]

\* (faulty variant of Strip) list.remove-like: only the first entry targeting v goes
RECURSIVE StripFirst(_, _)
StripFirst(list, v) ==
    IF list = <<>> THEN <<>>
    ELSE IF Head(list)[1] = v THEN Tail(list)
         ELSE <<Head(list)>> \o StripFirst(Tail(list), v)

\* [(vertex, weight) for vertex, weight in list if vertex != v]
RECURSIVE Strip(_, _)
Strip(list, v) ==
    IF list = <<>> THEN <<>>
    ELSE IF Head(list)[1] = v THEN Strip(Tail(list), v)
         ELSE <<Head(list)>> \o Strip(Tail(list), v)

\* any(vertex == v for vertex, _ in list)
AnyTarget(list, v) == \E i \in 1..Len(list) : list[i][1] = v

\* the targets of a list, as a set
Targets(list) == {list[i][1] : i \in 1..Len(list)}

\* number of entries equal to e in a list
Count(list, e) == Cardinality({i \in 1..Len(list) : list[i] = e})

RECURSIVE SumLen(_, _)
SumLen(g, S) ==
    IF S = {} THEN 0
    ELSE LET x == CHOOSE y \in S : TRUE
         IN  Len(g[x]) + SumLen(g, S \ {x})

\* number of add_edge calls whose entries are still stored
EdgeCount == IF directed THEN SumLen(graph, DOMAIN graph)
             ELSE SumLen(graph, DOMAIN graph) \div 2

----------------------------------------------------------------------------
(* return values *)

None == [kind |-> "none"]
List(s) == [kind |-> "list", val |-> s]
Adj(s) == [kind |-> "adj", val |-> s]
Bool(b) == [kind |-> "bool", val |-> b]

Call(op, u, v, w) == [op |-> op, u |-> u, v |-> v, w |-> w]

\* frame is the call in progress when a method is followed step by step:
\* its position pc and its local variables; Idle when no call is in progress
Idle == [pc |-> "idle"]

----------------------------------------------------------------------------
(* Graph.__init__ *)

EmptyGraph == [x \in {} |-> <<>>]

Init ==
    /\ directed \in BOOLEAN
    /\ vertices = {}
    /\ graph = EmptyGraph
    /\ last = Call("init", NoVertex, NoVertex, 0)
    /\ ret = None
    /\ frame = Idle
    /\ driver = "client"

----------------------------------------------------------------------------
(* Mutations: the new value of self.graph *)

\* (faulty variant of graph_add_edge) the reverse entry is never appended
graph_add_edge_oneway(g, dir, u, v, weight) ==
    Store(g, u, Append(Lookup(g, u), <<v, weight>>))

\* (faulty variant of graph_add_edge) an entry that is already there is not
\* appended again
graph_add_edge_dedup(g, dir, u, v, weight) ==
    LET g1 == IF Count(Lookup(g, u), <<v, weight>>) > 0 THEN Touch(g, u)
              ELSE Store(g, u, Append(Lookup(g, u), <<v, weight>>))
    IN  IF dir THEN g1
        ELSE IF Count(Lookup(g1, v), <<u, weight>>) > 0 THEN Touch(g1, v)
        ELSE Store(g1, v, Append(Lookup(g1, v), <<u, weight>>))

\* add_edge: append (v, weight) to u's list and, undirected, (u, weight) to v's
graph_add_edge(g, dir, u, v, weight) ==
    LET g1 == Store(g, u, Append(Lookup(g, u), <<v, weight>>))
    IN  IF ~dir THEN Store(g1, v, Append(Lookup(g1, v), <<u, weight>>))
        ELSE g1

\* (faulty variant of graph_remove_edge) v's list is never rebuilt
graph_remove_edge_oneside(g, dir, u, v) ==
    Store(g, u, Strip(Lookup(g, u), v))

\* remove_edge: rebuild u's list without v and, undirected, v's without u
graph_remove_edge(g, dir, u, v) ==
    LET g1 == Store(g, u, Strip(Lookup(g, u), v))
    IN  IF ~dir THEN Store(g1, v, Strip(Lookup(g1, v), u))
        ELSE g1

\* (faulty variant of graph_remove_vertex) the key is deleted, the other lists are kept
graph_remove_vertex_keyonly(g, vertex) ==
    [x \in (DOMAIN g) \ {vertex} |-> g[x]]

\* (faulty variant of graph_remove_vertex) the lists are rebuilt, the key is not deleted
graph_remove_vertex_keepkey(g, vertex) ==
    [x \in DOMAIN g |-> Strip(g[x], vertex)]

\* remove_vertex: rebuild every stored list without vertex, then delete its key
graph_remove_vertex(g, vertex) ==
    [x \in (DOMAIN g) \ {vertex} |-> Strip(g[x], vertex)]

\* (faulty variant of graph_add_vertex) the list is reset without the membership test
graph_add_vertex_reset(g, vertex) == Store(g, vertex, <<>>)

\* add_vertex: if vertex not in self.graph: self.graph[vertex] = []
graph_add_vertex(g, vertex) ==
    IF vertex \notin DOMAIN g THEN Store(g, vertex, <<>>) ELSE g

add_vertex(vertex) ==
    /\ vertices' = vertices \cup {vertex}
    /\ graph' = graph_add_vertex(graph, vertex)
    /\ last' = Call("add_vertex", vertex, NoVertex, 0)
    /\ ret' = None
    /\ UNCHANGED <<directed, driver, frame>>

add_edge(u, v, weight) ==
    /\ vertices' = vertices \cup {u, v}
    /\ graph' = graph_add_edge(graph, directed, u, v, weight)
    /\ last' = Call("add_edge", u, v, weight)
    /\ ret' = None
    /\ UNCHANGED <<directed, driver, frame>>

remove_edge(u, v) ==
    /\ graph' = graph_remove_edge(graph, directed, u, v)
    /\ last' = Call("remove_edge", u, v, 0)
    /\ ret' = None
    /\ UNCHANGED <<directed, vertices, driver, frame>>

remove_vertex(vertex) ==
    /\ vertices' = vertices \ {vertex}
    /\ graph' = graph_remove_vertex(graph, vertex)
    /\ last' = Call("remove_vertex", vertex, NoVertex, 0)
    /\ ret' = None
    /\ UNCHANGED <<directed, driver, frame>>

----------------------------------------------------------------------------
(* Queries: return values *)

get_neighbors_return(g, vertex) == Lookup(g, vertex)

has_edge_return(g, u, v) == AnyTarget(Lookup(g, u), v)

\* (faulty variant of bfs_scan) the loop ends after the first unvisited neighbour
bfs_scan_first(list, visited, queue) ==
    IF \A i \in 1..Len(list) : list[i][1] \in visited
    THEN [visited |-> visited, queue |-> queue]
    ELSE LET i == CHOOSE j \in 1..Len(list) :
                    /\ list[j][1] \notin visited
                    /\ \A k \in 1..(j - 1) : list[k][1] \in visited
         IN  [visited |-> visited \cup {list[i][1]}, queue |-> Append(queue, list[i][1])]

\* bfs, the for loop over one adjacency list
RECURSIVE bfs_scan(_, _, _)
bfs_scan(list, visited, queue) ==
    IF list = <<>> THEN [visited |-> visited, queue |-> queue]
    ELSE LET neighbor == Head(list)[1]
         IN  IF neighbor \notin visited
             THEN bfs_scan(Tail(list), visited \cup {neighbor}, Append(queue, neighbor))
             ELSE bfs_scan(Tail(list), visited, queue)

\* (faulty variant of bfs_loop) queue.pop(): the newest vertex, not the oldest
RECURSIVE bfs_loop_lifo(_, _, _, _)
bfs_loop_lifo(g, queue, visited, result) ==
    IF queue = <<>> THEN result
    ELSE LET vertex == queue[Len(queue)]
             s == bfs_scan(Lookup(g, vertex), visited, SubSeq(queue, 1, Len(queue) - 1))
         IN  bfs_loop_lifo(g, s.queue, s.visited, Append(result, vertex))

\* bfs, the while loop over the queue
RECURSIVE bfs_loop(_, _, _, _)
bfs_loop(g, queue, visited, result) ==
    IF queue = <<>> THEN result
    ELSE LET vertex == Head(queue)
             s == bfs_scan(Lookup(g, vertex), visited, Tail(queue))
         IN  bfs_loop(g, s.queue, s.visited, Append(result, vertex))

bfs_return(g, start) == bfs_loop(g, <<start>>, {start}, <<>>)

\* dfs: st is the pair of closure variables (visited, result)
RECURSIVE dfs_recursive(_, _, _)
RECURSIVE dfs_scan(_, _, _)
dfs_recursive(g, vertex, st) ==
    dfs_scan(g, Lookup(g, vertex),
             [visited |-> st.visited \cup {vertex}, result |-> Append(st.result, vertex)])

dfs_scan(g, list, st) ==
    IF list = <<>> THEN st
    ELSE LET neighbor == Head(list)[1]
         IN  dfs_scan(g, Tail(list),
                      IF neighbor \notin st.visited THEN dfs_recursive(g, neighbor, st)
                      ELSE st)

dfs_return(g, start) == dfs_recursive(g, start, [visited |-> {}, result |-> <<>>]).result

\* (faulty variant of sp_scan) path.append(neighbor): one list shared by the siblings
RECURSIVE sp_scan_shared_path(_, _, _, _, _)
sp_scan_shared_path(list, end, path, visited, queue) ==
    IF list = <<>> THEN [found |-> FALSE, path |-> <<>>, visited |-> visited, queue |-> queue]
    ELSE LET neighbor == Head(list)[1]
         IN  IF neighbor = end
             THEN [found |-> TRUE, path |-> Append(path, neighbor),
                   visited |-> visited, queue |-> queue]
             ELSE IF neighbor \notin visited
             THEN sp_scan_shared_path(Tail(list), end, Append(path, neighbor),
                                      visited \cup {neighbor},
                                      Append(queue, <<neighbor, Append(path, neighbor)>>))
             ELSE sp_scan_shared_path(Tail(list), end, path, visited, queue)

\* shortest_path_bfs, the for loop over one adjacency list; queue entries are
\* <<vertex, path>>
RECURSIVE sp_scan(_, _, _, _, _)
sp_scan(list, end, path, visited, queue) ==
    IF list = <<>> THEN [found |-> FALSE, path |-> <<>>, visited |-> visited, queue |-> queue]
    ELSE LET neighbor == Head(list)[1]
         IN  IF neighbor = end
             THEN [found |-> TRUE, path |-> Append(path, neighbor),
                   visited |-> visited, queue |-> queue]
             ELSE IF neighbor \notin visited
             THEN sp_scan(Tail(list), end, path, visited \cup {neighbor},
                          Append(queue, <<neighbor, Append(path, neighbor)>>))
             ELSE sp_scan(Tail(list), end, path, visited, queue)

\* shortest_path_bfs, the while loop; touched collects the keys read
RECURSIVE sp_loop(_, _, _, _, _)
sp_loop(g, end, queue, visited, touched) ==
    IF queue = <<>> THEN [found |-> FALSE, path |-> <<>>, touched |-> touched]
    ELSE LET vertex == Head(queue)[1]
             path == Head(queue)[2]
             s == sp_scan(Lookup(g, vertex), end, path, visited, Tail(queue))
         IN  IF s.found
             THEN [found |-> TRUE, path |-> s.path, touched |-> touched \cup {vertex}]
             ELSE sp_loop(g, end, s.queue, s.visited, touched \cup {vertex})

\* (faulty variant of shortest_path_bfs_run) the start == end test is missing
shortest_path_bfs_run_nocheck(g, start, end) ==
    sp_loop(g, end, <<<<start, <<start>>>>>>, {start}, {})

shortest_path_bfs_run(g, start, end) ==
    IF start = end THEN [found |-> TRUE, path |-> <<start>>, touched |-> {}]
    ELSE sp_loop(g, end, <<<<start, <<start>>>>>>, {start}, {})

Range(s) == {s[i] : i \in 1..Len(s)}

----------------------------------------------------------------------------
(* dijkstra *)

\* float('infinity'), kept apart from every distance
Infinity == -1

\* a < b for a finite a and a b that may be float('infinity')
Less(a, b) == b = Infinity \/ a < b

\* the vertex identifiers in the order Python compares them
Alphabet == <<"", "A", "B", "C", "D", "E", "F">>
Rank(v) == CHOOSE i \in 1..Len(Alphabet) : Alphabet[i] = v

\* (distance, vertex) tuples as Python compares them
TupleLess(a, b) == a[1] < b[1] \/ (a[1] = b[1] /\ Rank(a[2]) < Rank(b[2]))

\* the truth value of the end argument; None is NoVertex
Truthy(x) == x # NoVertex /\ x # ""

\* (faulty variant of pq_min) pq.pop(0): the oldest entry, not the smallest
pq_first(pq) == 1

\* heapq.heappop: the position of the smallest tuple of the queue
pq_min(pq) ==
    CHOOSE i \in 1..Len(pq) :
        /\ \A j \in 1..Len(pq) : ~TupleLess(pq[j], pq[i])
        /\ \A j \in 1..(i - 1) : TupleLess(pq[i], pq[j])

RemoveAt(s, i) == SubSeq(s, 1, i - 1) \o SubSeq(s, i + 1, Len(s))

\* (faulty variant of Reverse) the [::-1] left out
KeepOrder(s) == s
Reverse(s) == [i \in 1..Len(s) |-> s[Len(s) + 1 - i]]

\* (faulty variant of dj_init) only start is entered; the others are filled lazily
dj_init_lazy(verts, start) == [v \in {start} |-> 0]

\* distances = {vertex: inf for vertex in self.vertices}; distances[start] = 0
dj_init(verts, start) ==
    [v \in verts \cup {start} |-> IF v = start THEN 0 ELSE Infinity]

\* dijkstra, the for loop over one adjacency list; st holds distances,
\* previous, pq and error (a KeyError of distances[neighbor])
RECURSIVE dj_scan(_, _, _, _)
dj_scan(list, current_dist, current, st) ==
    IF list = <<>> \/ st.error THEN st
    ELSE LET neighbor == Head(list)[1]
             weight == Head(list)[2]
             distance == current_dist + weight
         IN  IF neighbor \notin DOMAIN st.distances
             THEN [st EXCEPT !.error = TRUE]
             ELSE IF Less(distance, st.distances[neighbor])
             THEN dj_scan(Tail(list), current_dist, current,
                          [st EXCEPT !.distances = Store(st.distances, neighbor, distance),
                                     !.previous = Store(st.previous, neighbor, current),
                                     !.pq = Append(st.pq, <<distance, neighbor>>)])
             ELSE dj_scan(Tail(list), current_dist, current, st)

\* dijkstra, the while loop; st also holds visited and touched (the keys read)
RECURSIVE dj_loop(_, _, _)
dj_loop(g, end, st) ==
    IF st.pq = <<>> \/ st.error THEN st
    ELSE LET i == pq_min(st.pq)
             current_dist == st.pq[i][1]
             current == st.pq[i][2]
             popped == [st EXCEPT !.pq = RemoveAt(st.pq, i)]
         IN  IF current \in st.visited THEN dj_loop(g, end, popped)
             ELSE LET seen == [popped EXCEPT !.visited = popped.visited \cup {current}]
                  IN  IF Truthy(end) /\ current = end THEN seen
                      ELSE dj_loop(g, end,
                                   dj_scan(Lookup(g, current), current_dist, current,
                                           [seen EXCEPT !.touched = seen.touched \cup {current}]))

\* while current in previous: path.append(current); current = previous[current]
RECURSIVE dj_walk(_, _, _)
dj_walk(previous, current, path) ==
    IF current \in DOMAIN previous
    THEN dj_walk(previous, previous[current], Append(path, current))
    ELSE path

KeyError == [kind |-> "error", val |-> "KeyError"]
Pair(found, path, dist) == [kind |-> "pair", found |-> found, path |-> path, dist |-> dist]
Dist(d) == [kind |-> "dist", val |-> d]

\* dijkstra(start, end): the value returned (or the exception) and the keys read
dijkstra_run(g, verts, start, end) ==
    LET st == dj_loop(g, end, [distances |-> dj_init(verts, start),
                               previous |-> EmptyGraph,
                               pq |-> <<<<0, start>>>>,
                               visited |-> {}, touched |-> {}, error |-> FALSE])
    IN  IF st.error THEN [ret |-> KeyError, touched |-> st.touched]
        ELSE IF Truthy(end)
        THEN IF end \notin DOMAIN st.distances
             THEN [ret |-> KeyError, touched |-> st.touched]
             ELSE IF st.distances[end] = Infinity
             THEN [ret |-> Pair(FALSE, <<>>, Infinity), touched |-> st.touched]
             ELSE [ret |-> Pair(TRUE, Reverse(Append(dj_walk(st.previous, end, <<>>), start)),
                                st.distances[end]),
                   touched |-> st.touched]
        ELSE [ret |-> Dist(st.distances), touched |-> st.touched]

dijkstra(start, end) ==
    LET r == dijkstra_run(graph, vertices, start, end)
    IN  /\ ret' = r.ret
        /\ graph' = TouchAll(graph, r.touched)
        /\ last' = Call("dijkstra", start, end, 0)
        /\ UNCHANGED <<directed, vertices, driver, frame>>

----------------------------------------------------------------------------
(* Queries: the calls.  Each reads self.graph[x], which inserts missing keys *)

get_neighbors(vertex) ==
    /\ ret' = Adj(get_neighbors_return(graph, vertex))
    /\ graph' = Touch(graph, vertex)
    /\ last' = Call("get_neighbors", vertex, NoVertex, 0)
    /\ UNCHANGED <<directed, vertices, driver, frame>>

has_edge(u, v) ==
    /\ ret' = Bool(has_edge_return(graph, u, v))
    /\ graph' = Touch(graph, u)
    /\ last' = Call("has_edge", u, v, 0)
    /\ UNCHANGED <<directed, vertices, driver, frame>>

bfs(start) ==
    LET result == bfs_return(graph, start)
    IN  /\ ret' = List(result)
        /\ graph' = TouchAll(graph, Range(result))
        /\ last' = Call("bfs", start, NoVertex, 0)
        /\ UNCHANGED <<directed, vertices, driver, frame>>

dfs(start) ==
    LET result == dfs_return(graph, start)
    IN  /\ ret' = List(result)
        /\ graph' = TouchAll(graph, Range(result))
        /\ last' = Call("dfs", start, NoVertex, 0)
        /\ UNCHANGED <<directed, vertices, driver, frame>>

shortest_path_bfs(start, end) ==
    LET r == shortest_path_bfs_run(graph, start, end)
    IN  /\ ret' = IF r.found THEN List(r.path) ELSE None
        /\ graph' = TouchAll(graph, r.touched)
        /\ last' = Call("shortest_path_bfs", start, end, 0)
        /\ UNCHANGED <<directed, vertices, driver, frame>>

----------------------------------------------------------------------------
(* Specifications *)

\* Spec: any client of the store, arguments from Core
Next ==
    \/ \E x \in Core : add_vertex(x)
    \/ \E u, v \in Core, w \in Weights : EdgeCount < MaxEdges /\ add_edge(u, v, w)
    \/ \E u, v \in Core : remove_edge(u, v)
    \/ \E x \in Core : remove_vertex(x)
    \/ \E x \in Core : get_neighbors(x)
    \/ \E u, v \in Core : has_edge(u, v)
    \/ \E x \in Core : bfs(x)
    \/ \E x \in Core : dfs(x)

Spec == Init /\ [][Next]_vars

\* SpecPaths: a graph is built with add_edge(u, v) (default weight) and then
\* traversed.  The client driver builds any graph on Core; the chain driver
\* builds the undirected chain A-B-C-D-E, its edges in any order.
InitPaths ==
    /\ driver \in {"client", "chain"}
    /\ directed \in (IF driver = "chain" THEN {FALSE} ELSE BOOLEAN)
    /\ vertices = {}
    /\ graph = EmptyGraph
    /\ last = Call("init", NoVertex, NoVertex, 0)
    /\ ret = None
    /\ frame = Idle

Args == IF driver = "chain" THEN Vertex ELSE Core

NextPaths ==
    \/ /\ driver = "client"
       /\ \E u, v \in Core : EdgeCount < MaxPathEdges /\ add_edge(u, v, DefaultWeight)
    \/ /\ driver = "chain"
       /\ \E p \in ChainPairs :
            /\ ~has_edge_return(graph, p[1], p[2])
            /\ add_edge(p[1], p[2], DefaultWeight)
    \/ \E x \in Args : bfs(x)
    \/ \E x \in Args : dfs(x)
    \/ \E u, v \in Args : shortest_path_bfs(u, v)

SpecPaths == InitPaths /\ [][NextPaths]_vars

----------------------------------------------------------------------------
(* has_cycle *)

\* the default of the parameter parent of has_cycle_util: -1, no vertex
NoParent == "-1"

\* the orders in which a for loop may go through the set S
RECURSIVE Perms(_)
Perms(S) ==
    IF S = {} THEN {<<>>}
    ELSE UNION {{<<x>> \o p : p \in Perms(S \ {x})} : x \in S}

RECURSIVE hc_scan(_, _, _, _, _, _)
RECURSIVE hc_util(_, _, _, _, _)

\* (faulty variant of hc_scan) undirected: every visited neighbor is a cycle,
\* the parent included
RECURSIVE hc_scan_noparent(_, _, _, _, _, _)
hc_scan_noparent(g, dir, list, vertex, parent, st) ==
    IF list = <<>> THEN st
    ELSE LET neighbor == Head(list)[1]
         IN  IF neighbor \notin st.visited
             THEN LET sub == hc_util(g, dir, neighbor, vertex, st)
                  IN  IF sub.found THEN sub
                      ELSE hc_scan_noparent(g, dir, Tail(list), vertex, parent, sub)
             ELSE IF dir
             THEN IF neighbor \in st.rec_stack
                  THEN [st EXCEPT !.found = TRUE]
                  ELSE hc_scan_noparent(g, dir, Tail(list), vertex, parent, st)
             ELSE [st EXCEPT !.found = TRUE]

\* (faulty variant of hc_scan) undirected: an entry that repeats the previous
\* one is skipped like the parent
RECURSIVE hc_scan_skip_repeat(_, _, _, _, _, _)
hc_scan_skip_repeat(g, dir, list, vertex, parent, st) ==
    IF list = <<>> THEN st
    ELSE LET neighbor == Head(list)[1]
         IN  IF neighbor \notin st.visited
             THEN LET sub == hc_util(g, dir, neighbor, vertex, st)
                  IN  IF sub.found THEN sub
                      ELSE hc_scan_skip_repeat(g, dir, Tail(list), neighbor, parent, sub)
             ELSE IF dir
             THEN IF neighbor \in st.rec_stack
                  THEN [st EXCEPT !.found = TRUE]
                  ELSE hc_scan_skip_repeat(g, dir, Tail(list), vertex, parent, st)
             ELSE IF neighbor # parent /\ neighbor # vertex
                  THEN [st EXCEPT !.found = TRUE]
                  ELSE hc_scan_skip_repeat(g, dir, Tail(list), vertex, parent, st)

\* has_cycle_util, the for loop over the adjacency list of vertex; st holds
\* visited and rec_stack of the enclosing call and found, the value returned
hc_scan(g, dir, list, vertex, parent, st) ==
    IF list = <<>> THEN st
    ELSE LET neighbor == Head(list)[1]
         IN  IF neighbor \notin st.visited
             THEN LET sub == hc_util(g, dir, neighbor, vertex, st)
                  IN  IF sub.found THEN sub
                      ELSE hc_scan(g, dir, Tail(list), vertex, parent, sub)
             ELSE IF dir
             THEN IF neighbor \in st.rec_stack
                  THEN [st EXCEPT !.found = TRUE]
                  ELSE hc_scan(g, dir, Tail(list), vertex, parent, st)
             ELSE IF neighbor # parent
                  THEN [st EXCEPT !.found = TRUE]
                  ELSE hc_scan(g, dir, Tail(list), vertex, parent, st)

\* (faulty variant of hc_util) rec_stack.remove(vertex) left out
hc_util_keepstack(g, dir, vertex, parent, st) ==
    hc_scan(g, dir, Lookup(g, vertex), vertex, parent,
            [st EXCEPT !.visited = @ \cup {vertex},
                       !.rec_stack = IF dir THEN @ \cup {vertex} ELSE @])

hc_util(g, dir, vertex, parent, st) ==
    LET after == hc_scan(g, dir, Lookup(g, vertex), vertex, parent,
                         [st EXCEPT !.visited = @ \cup {vertex},
                                    !.rec_stack = IF dir THEN @ \cup {vertex} ELSE @])
    IN  IF after.found THEN after
        ELSE [after EXCEPT !.rec_stack = IF dir THEN @ \ {vertex} ELSE @]

\* has_cycle, the loop over self.vertices taken in the order given
RECURSIVE hc_outer(_, _, _, _)
hc_outer(g, dir, order, st) ==
    IF order = <<>> THEN st
    ELSE IF Head(order) \in st.visited THEN hc_outer(g, dir, Tail(order), st)
    ELSE LET sub == hc_util(g, dir, Head(order), NoParent, st)
         IN  IF sub.found THEN sub ELSE hc_outer(g, dir, Tail(order), sub)

has_cycle_run(g, dir, order) ==
    hc_outer(g, dir, order, [visited |-> {}, rec_stack |-> {}, found |-> FALSE])

has_cycle(order) ==
    LET r == has_cycle_run(graph, directed, order)
    IN  /\ ret' = Bool(r.found)
        /\ graph' = TouchAll(graph, r.visited)
        /\ last' = Call("has_cycle", NoVertex, NoVertex, 0)
        /\ UNCHANGED <<directed, vertices, driver, frame>>

----------------------------------------------------------------------------
(* topological_sort *)

RECURSIVE ts_scan(_, _, _)
RECURSIVE ts_dfs(_, _, _)

\* (faulty variant of ts_dfs) the vertex is appended before its neighbors
ts_dfs_preorder(g, vertex, st) ==
    ts_scan(g, Lookup(g, vertex),
            [st EXCEPT !.visited = @ \cup {vertex}, !.stack = Append(@, vertex)])

\* (faulty variant of ts_scan) the loop stops after the first neighbor
ts_scan_first(g, list, st) ==
    IF list = <<>> THEN st
    ELSE LET neighbor == Head(list)[1]
         IN  IF neighbor \notin st.visited THEN ts_dfs(g, neighbor, st) ELSE st

ts_scan(g, list, st) ==
    IF list = <<>> THEN st
    ELSE LET neighbor == Head(list)[1]
         IN  ts_scan(g, Tail(list),
                     IF neighbor \notin st.visited THEN ts_dfs(g, neighbor, st) ELSE st)

ts_dfs(g, vertex, st) ==
    LET after == ts_scan(g, Lookup(g, vertex), [st EXCEPT !.visited = @ \cup {vertex}])
    IN  [after EXCEPT !.stack = Append(@, vertex)]

\* topological_sort, the loop over self.vertices taken in the order given
RECURSIVE ts_outer(_, _, _)
ts_outer(g, order, st) ==
    IF order = <<>> THEN st
    ELSE ts_outer(g, Tail(order),
                  IF Head(order) \notin st.visited THEN ts_dfs(g, Head(order), st) ELSE st)

ValueError == [kind |-> "error", val |-> "ValueError"]

\* (faulty variant of topological_sort_run) the test of self.directed left out
topological_sort_run_nocheck(g, dir, order) ==
    LET st == ts_outer(g, order, [visited |-> {}, stack |-> <<>>])
    IN  [ret |-> List(Reverse(st.stack)), touched |-> st.visited]

topological_sort_run(g, dir, order) ==
    IF ~dir THEN [ret |-> ValueError, touched |-> {}]
    ELSE LET st == ts_outer(g, order, [visited |-> {}, stack |-> <<>>])
         IN  [ret |-> List(Reverse(st.stack)), touched |-> st.visited]

topological_sort(order) ==
    LET r == topological_sort_run(graph, directed, order)
    IN  /\ ret' = r.ret
        /\ graph' = TouchAll(graph, r.touched)
        /\ last' = Call("topological_sort", NoVertex, NoVertex, 0)
        /\ UNCHANGED <<directed, vertices, driver, frame>>

----------------------------------------------------------------------------
\* SpecWeighted: a weighted graph is built with add_edge(u, v, w) and then
\* searched with dijkstra.  The client driver builds any graph without
\* self-loops on Core; the example driver runs the undirected example of the
\* module's main program; the falsy driver builds a graph through the vertex "".
MaxWeightedEdges == 3

\* non-negative weights, zero included
DijkstraWeights == {0, 1}

\* g.add_edge('A', 'B', 1) ... g.add_edge('D', 'E', 2), in program order
UndirectedExample ==
    << <<"A", "B", 1>>, <<"A", "C", 2>>, <<"B", "D", 3>>, <<"C", "D", 1>>, <<"D", "E", 2>> >>

\* a graph one of whose vertices is the empty string
FalsyExample == << <<"A", "", 1>>, <<"", "B", 1>> >>

WeightedScript == IF driver = "example" THEN UndirectedExample ELSE FalsyExample

InitWeighted ==
    /\ driver \in {"client", "example", "falsy"}
    /\ directed \in (IF driver = "client" THEN BOOLEAN ELSE {FALSE})
    /\ vertices = {}
    /\ graph = EmptyGraph
    /\ last = Call("init", NoVertex, NoVertex, 0)
    /\ ret = None
    /\ frame = Idle

ArgsWeighted ==
    IF driver = "example" THEN Vertex
    ELSE IF driver = "falsy" THEN {"", "A", "B"} ELSE Core

NextWeighted ==
    \/ /\ driver = "client"
       /\ \E u, v \in Core, w \in DijkstraWeights :
            u # v /\ EdgeCount < MaxWeightedEdges /\ add_edge(u, v, w)
    \/ /\ driver # "client"
       /\ EdgeCount < Len(WeightedScript)
       /\ LET e == WeightedScript[EdgeCount + 1] IN add_edge(e[1], e[2], e[3])
    \/ \E x \in ArgsWeighted : dijkstra(x, NoVertex)
    \/ \E x, y \in ArgsWeighted : dijkstra(x, y)

SpecWeighted == InitWeighted /\ [][NextWeighted]_vars

\* has_cycle and topological_sort: a client on Core, and the two directed
\* graphs built edge by edge: the DAG of the main program and a diamond
MaxStructEdges == 4

DagExample ==
    << <<"A", "C">>, <<"B", "C">>, <<"B", "D">>, <<"C", "E">>, <<"D", "F">>, <<"E", "F">> >>

Diamond == << <<"A", "B">>, <<"A", "C">>, <<"B", "D">>, <<"C", "D">> >>

Script == IF driver = "dag" THEN DagExample ELSE Diamond

InitStruct ==
    /\ driver \in {"client", "dag", "diamond"}
    /\ directed \in (IF driver = "client" THEN BOOLEAN ELSE {TRUE})
    /\ vertices = {} /\ graph = EmptyGraph
    /\ last = Call("init", NoVertex, NoVertex, 0) /\ ret = None
    /\ frame = Idle

NextStruct ==
    \/ /\ driver = "client"
       /\ \E u, v \in Core : EdgeCount < MaxStructEdges /\ add_edge(u, v, DefaultWeight)
    \/ /\ driver = "client"
       /\ \E x \in Core : x \notin vertices /\ add_vertex(x)
    \/ /\ driver # "client"
       /\ EdgeCount < Len(Script)
       /\ LET e == Script[EdgeCount + 1] IN add_edge(e[1], e[2], DefaultWeight)
    \/ \E order \in Perms(vertices) : has_cycle(order)
    \/ \E order \in Perms(vertices) : topological_sort(order)

SpecStruct == InitStruct /\ [][NextStruct]_vars

----------------------------------------------------------------------------
(* is_bipartite *)

\* (faulty variant of bp_scan) the comparison of the two colours left out
RECURSIVE bp_scan_nocheck(_, _, _)
bp_scan_nocheck(list, vertex, st) ==
    IF list = <<>> \/ ~st.ok THEN st
    ELSE LET neighbor == Head(list)[1]
         IN  IF neighbor \notin DOMAIN st.color
             THEN bp_scan_nocheck(Tail(list), vertex,
                          [st EXCEPT !.color = Store(st.color, neighbor, 1 - st.color[vertex]),
                                     !.queue = Append(st.queue, neighbor)])
             ELSE bp_scan_nocheck(Tail(list), vertex, st)

\* (faulty variant of bp_scan) a neighbour that already has the other colour
\* is put back in the queue, so the queue of a component with an edge never empties
RECURSIVE bp_scan_requeue(_, _, _)
bp_scan_requeue(list, vertex, st) ==
    IF list = <<>> \/ ~st.ok THEN st
    ELSE LET neighbor == Head(list)[1]
         IN  IF neighbor \notin DOMAIN st.color
             THEN bp_scan_requeue(Tail(list), vertex,
                          [st EXCEPT !.color = Store(st.color, neighbor, 1 - st.color[vertex]),
                                     !.queue = Append(st.queue, neighbor)])
             ELSE IF st.color[neighbor] = st.color[vertex]
             THEN [st EXCEPT !.ok = FALSE]
             ELSE bp_scan_requeue(Tail(list), vertex,
                          [st EXCEPT !.queue =
                              IF \E i \in 1..Len(st.queue) : st.queue[i] = neighbor
                              THEN st.queue ELSE Append(st.queue, neighbor)])

\* bfs_check, the for loop over the adjacency list of vertex; st holds color
\* of the enclosing call, the queue and ok, FALSE once False is returned
RECURSIVE bp_scan(_, _, _)
bp_scan(list, vertex, st) ==
    IF list = <<>> \/ ~st.ok THEN st
    ELSE LET neighbor == Head(list)[1]
         IN  IF neighbor \notin DOMAIN st.color
             THEN bp_scan(Tail(list), vertex,
                          [st EXCEPT !.color = Store(st.color, neighbor, 1 - st.color[vertex]),
                                     !.queue = Append(st.queue, neighbor)])
             ELSE IF st.color[neighbor] = st.color[vertex]
             THEN [st EXCEPT !.ok = FALSE]
             ELSE bp_scan(Tail(list), vertex, st)

\* bfs_check, the while loop over the queue
RECURSIVE bp_loop(_, _)
bp_loop(g, st) ==
    IF st.queue = <<>> \/ ~st.ok THEN st
    ELSE LET vertex == Head(st.queue)
         IN  bp_loop(g, bp_scan(Lookup(g, vertex), vertex,
                                [st EXCEPT !.queue = Tail(st.queue),
                                           !.touched = st.touched \cup {vertex}]))

bfs_check(g, start, st) ==
    bp_loop(g, [st EXCEPT !.queue = <<start>>, !.color = Store(st.color, start, 0)])

\* is_bipartite, the loop over self.vertices taken in the order given
RECURSIVE bp_outer(_, _, _)
bp_outer(g, order, st) ==
    IF order = <<>> \/ ~st.ok THEN st
    ELSE IF Head(order) \in DOMAIN st.color THEN bp_outer(g, Tail(order), st)
    ELSE bp_outer(g, Tail(order), bfs_check(g, Head(order), st))

is_bipartite_run(g, order) ==
    bp_outer(g, order, [color |-> EmptyGraph, queue |-> <<>>, ok |-> TRUE, touched |-> {}])

is_bipartite(order) ==
    LET r == is_bipartite_run(graph, order)
    IN  /\ ret' = Bool(r.ok)
        /\ graph' = TouchAll(graph, r.touched)
        /\ last' = Call("is_bipartite", NoVertex, NoVertex, 0)
        /\ UNCHANGED <<directed, vertices, driver, frame>>

----------------------------------------------------------------------------
(* connected_components *)

RECURSIVE cc_dfs(_, _, _)
RECURSIVE cc_scan(_, _, _)
cc_dfs(g, vertex, st) ==
    cc_scan(g, Lookup(g, vertex),
            [visited |-> st.visited \cup {vertex}, component |-> Append(st.component, vertex)])

cc_scan(g, list, st) ==
    IF list = <<>> THEN st
    ELSE LET neighbor == Head(list)[1]
         IN  cc_scan(g, Tail(list),
                     IF neighbor \notin st.visited THEN cc_dfs(g, neighbor, st) ELSE st)

\* (faulty variant of cc_outer) the test "vertex not in visited" left out
RECURSIVE cc_outer_nofilter(_, _, _)
cc_outer_nofilter(g, order, st) ==
    IF order = <<>> THEN st
    ELSE LET sub == cc_dfs(g, Head(order), [visited |-> st.visited, component |-> <<>>])
         IN  cc_outer_nofilter(g, Tail(order),
                      [visited |-> sub.visited,
                       components |-> Append(st.components, sub.component)])

\* connected_components, the loop over self.vertices taken in the order given
RECURSIVE cc_outer(_, _, _)
cc_outer(g, order, st) ==
    IF order = <<>> THEN st
    ELSE IF Head(order) \in st.visited THEN cc_outer(g, Tail(order), st)
    ELSE LET sub == cc_dfs(g, Head(order), [visited |-> st.visited, component |-> <<>>])
         IN  cc_outer(g, Tail(order),
                      [visited |-> sub.visited,
                       components |-> Append(st.components, sub.component)])

Lists(s) == [kind |-> "lists", val |-> s]

connected_components_run(g, order) ==
    cc_outer(g, order, [visited |-> {}, components |-> <<>>])

connected_components(order) ==
    LET r == connected_components_run(graph, order)
    IN  /\ ret' = Lists(r.components)
        /\ graph' = TouchAll(graph, r.visited)
        /\ last' = Call("connected_components", NoVertex, NoVertex, 0)
        /\ UNCHANGED <<directed, vertices, driver, frame>>

\* is_bipartite and connected_components: a client on Core, and the undirected
\* cycles of four, five and six vertices built edge by edge
MaxPartEdges == 4

Cycle4 == << <<"A", "B">>, <<"B", "C">>, <<"C", "D">>, <<"D", "A">> >>

Cycle5 == << <<"A", "B">>, <<"B", "C">>, <<"C", "D">>, <<"D", "E">>, <<"E", "A">> >>

Cycle6 ==
    << <<"A", "B">>, <<"B", "C">>, <<"C", "D">>, <<"D", "E">>, <<"E", "F">>, <<"F", "A">> >>

CycleScript ==
    IF driver = "cycle4" THEN Cycle4 ELSE IF driver = "cycle5" THEN Cycle5 ELSE Cycle6

InitParts ==
    /\ driver \in {"client", "cycle4", "cycle5", "cycle6"}
    /\ directed \in (IF driver = "client" THEN BOOLEAN ELSE {FALSE})
    /\ vertices = {} /\ graph = EmptyGraph
    /\ last = Call("init", NoVertex, NoVertex, 0) /\ ret = None
    /\ frame = Idle

NextParts ==
    \/ /\ driver = "client"
       /\ \E u, v \in Core : EdgeCount < MaxPartEdges /\ add_edge(u, v, DefaultWeight)
    \/ /\ driver = "client"
       /\ \E x \in Core : x \notin vertices /\ add_vertex(x)
    \/ /\ driver # "client"
       /\ EdgeCount < Len(CycleScript)
       /\ LET e == CycleScript[EdgeCount + 1] IN add_edge(e[1], e[2], DefaultWeight)
    \/ \E order \in Perms(vertices) : is_bipartite(order)
    \/ \E order \in Perms(vertices) : connected_components(order)

SpecParts == InitParts /\ [][NextParts]_vars

----------------------------------------------------------------------------
(* class WeightedGraph.  Its two fields are held in the variables of the    *)
(* same names as in the source: vertices is the argument of __init__, the   *)
(* number self.V, and graph is self.graph, the matrix, a function from      *)
(* 0..V-1 to the rows, each a function from 0..V-1 to the weights.          *)

\* [[0 for _ in range(vertices)] for _ in range(vertices)]
ZeroMatrix(V) == [i \in 0..(V - 1) |-> [j \in 0..(V - 1) |-> 0]]

matrix_add_edge(m, u, v, weight) ==
    [[m EXCEPT ![u][v] = weight] EXCEPT ![v][u] = weight]

\* a Python list index: a negative one counts from the end
At(V, i) == IF i < 0 THEN V + i ELSE i

\* key[v] < min_key, either of which may be float('infinity')
KeyLess(a, b) == a # Infinity /\ Less(a, b)

\* prim_mst, the loop that finds the unselected vertex of least key
RECURSIVE pm_find(_, _, _, _, _, _)
pm_find(v, V, selected, key, min_key, u) ==
    IF v >= V THEN u
    ELSE IF ~selected[v] /\ KeyLess(key[v], min_key)
         THEN pm_find(v + 1, V, selected, key, key[v], v)
         ELSE pm_find(v + 1, V, selected, key, min_key, u)

\* (faulty variant of pm_update) the key of v becomes the distance from the
\* first selected vertex, key[u] + graph[u][v], as in dijkstra
RECURSIVE pm_update_distance(_, _, _, _, _)
pm_update_distance(v, V, m, u, st) ==
    IF v >= V THEN st
    ELSE LET w == m[At(V, u)][v]
             d == st.key[At(V, u)] + w
         IN  IF w > 0 /\ ~st.selected[v] /\ Less(d, st.key[v])
             THEN pm_update_distance(v + 1, V, m, u,
                            [st EXCEPT !.key[v] = d, !.parent[v] = u])
             ELSE pm_update_distance(v + 1, V, m, u, st)

\* prim_mst, the loop that updates the keys from the row of u
RECURSIVE pm_update(_, _, _, _, _)
pm_update(v, V, m, u, st) ==
    IF v >= V THEN st
    ELSE LET w == m[At(V, u)][v]
         IN  IF w > 0 /\ ~st.selected[v] /\ Less(w, st.key[v])
             THEN pm_update(v + 1, V, m, u, [st EXCEPT !.key[v] = w, !.parent[v] = u])
             ELSE pm_update(v + 1, V, m, u, st)

\* one round of the loop "for _ in range(self.V)"
pm_round(V, m, st) ==
    LET u == pm_find(0, V, st.selected, st.key, Infinity, -1)
        p == st.parent[At(V, u)]
        sel == [st EXCEPT !.selected[At(V, u)] = TRUE,
                          !.rounds = st.rounds + 1,
                          !.mst_edges = IF p # -1
                                        THEN Append(st.mst_edges, <<p, u, m[At(V, p)][At(V, u)]>>)
                                        ELSE st.mst_edges]
    IN  pm_update(0, V, m, u, sel)

RECURSIVE pm_rounds(_, _, _, _)
pm_rounds(k, V, m, st) ==
    IF k >= V THEN st ELSE pm_rounds(k + 1, V, m, pm_round(V, m, st))

prim_mst_run(V, m) ==
    pm_rounds(0, V, m,
              [selected |-> [v \in 0..(V - 1) |-> FALSE],
               parent |-> [v \in 0..(V - 1) |-> -1],
               key |-> [v \in 0..(V - 1) |-> IF v = 0 THEN 0 ELSE Infinity],
               mst_edges |-> <<>>,
               rounds |-> 0])

Edges(s, rounds) == [kind |-> "edges", val |-> s, rounds |-> rounds]

wg_add_edge(u, v, weight) ==
    /\ graph' = matrix_add_edge(graph, u, v, weight)
    /\ last' = Call("add_edge", u, v, weight)
    /\ ret' = None
    /\ UNCHANGED <<directed, vertices, driver, frame>>

prim_mst ==
    LET r == prim_mst_run(vertices, graph)
    IN  /\ ret' = Edges(r.mst_edges, r.rounds)
        /\ last' = Call("prim_mst", -1, -1, 0)
        /\ UNCHANGED <<directed, vertices, graph, driver, frame>>

\* a client on one to four vertices, and the graph of the main program
MaxMatrixEdges == 5

Sizes == {1, 2, 3, 4}

MstWeights == {1, 2, 3}

MstExample ==
    << <<0, 1, 2>>, <<0, 3, 6>>, <<1, 2, 3>>, <<1, 3, 8>>, <<1, 4, 5>>, <<2, 4, 7>>, <<3, 4, 9>> >>

\* the pairs u < v that the matrix m joins
MatrixEdges(V, m) == {e \in (0..(V - 1)) \X (0..(V - 1)) : e[1] < e[2] /\ m[e[1]][e[2]] > 0}

InitMst ==
    /\ driver \in {"client", "example"}
    /\ vertices \in (IF driver = "client" THEN Sizes ELSE {5})
    /\ graph = ZeroMatrix(vertices)
    /\ directed = FALSE
    /\ last = Call("init", -1, -1, 0) /\ ret = None
    /\ frame = Idle

NextMst ==
    \/ /\ driver = "client"
       /\ \E u, v \in 0..(vertices - 1), w \in MstWeights :
            /\ u < v
            /\ graph[u][v] > 0 \/ Cardinality(MatrixEdges(vertices, graph)) < MaxMatrixEdges
            /\ wg_add_edge(u, v, w)
    \/ /\ driver = "example"
       /\ Cardinality(MatrixEdges(vertices, graph)) < Len(MstExample)
       /\ LET e == MstExample[Cardinality(MatrixEdges(vertices, graph)) + 1]
          IN  wg_add_edge(e[1], e[2], e[3])
    \/ prim_mst

SpecMst == InitMst /\ [][NextMst]_vars

----------------------------------------------------------------------------
(* The methods followed step by step.  A call puts its local variables in   *)
(* frame; one step is one turn of its while loop, or one turn of the for    *)
(* loop of the innermost recursive call; the last step stores the returned  *)
(* value in ret and leaves frame Idle.                                       *)

Running(op) == frame.pc = op

Return(value) == ret' = value /\ frame' = Idle

\* one activation of a recursive helper: its vertex, its parent argument and
\* the number of entries of self.graph[vertex] its for loop has taken
Activation(vertex, parent) == [vertex |-> vertex, parent |-> parent, i |-> 0]

Top(stack) == stack[Len(stack)]

Pop(stack) == SubSeq(stack, 1, Len(stack) - 1)

\* the stack with the for loop of its top activation moved on by one entry
Advance(stack) == [stack EXCEPT ![Len(stack)].i = @ + 1]

\* the entry the for loop of the top activation takes next
NextEntry(stack) == Lookup(graph, Top(stack).vertex)[Top(stack).i + 1]

\* the for loop of the top activation has taken every entry
Exhausted(stack) == Top(stack).i >= Len(Lookup(graph, Top(stack).vertex))

(* bfs *)
bfs_call(start) ==
    /\ frame = Idle
    /\ frame' = [pc |-> "bfs", queue |-> <<start>>, visited |-> {start}, result |-> <<>>]
    /\ last' = Call("bfs", start, NoVertex, 0)
    /\ ret' = None
    /\ UNCHANGED <<directed, vertices, graph, driver>>

bfs_iter ==
    /\ Running("bfs")
    /\ frame.queue # <<>>
    /\ LET vertex == Head(frame.queue)
           s == bfs_scan(Lookup(graph, vertex), frame.visited, Tail(frame.queue))
       IN  /\ frame' = [frame EXCEPT !.queue = s.queue, !.visited = s.visited,
                                     !.result = Append(@, vertex)]
           /\ graph' = Touch(graph, vertex)
    /\ UNCHANGED <<directed, vertices, last, ret, driver>>

bfs_exit ==
    /\ Running("bfs")
    /\ frame.queue = <<>>
    /\ Return(List(frame.result))
    /\ UNCHANGED <<directed, vertices, graph, last, driver>>

(* dfs *)
dfs_call(start) ==
    /\ frame = Idle
    /\ frame' = [pc |-> "dfs", stack |-> <<Activation(start, NoVertex)>>,
                 visited |-> {start}, result |-> <<start>>]
    /\ graph' = Touch(graph, start)
    /\ last' = Call("dfs", start, NoVertex, 0)
    /\ ret' = None
    /\ UNCHANGED <<directed, vertices, driver>>

dfs_iter ==
    /\ Running("dfs")
    /\ frame.stack # <<>>
    /\ IF Exhausted(frame.stack)
       THEN /\ frame' = [frame EXCEPT !.stack = Pop(@)]
            /\ graph' = graph
       ELSE LET neighbor == NextEntry(frame.stack)[1]
            IN  IF neighbor \notin frame.visited
                THEN /\ frame' = [frame EXCEPT
                                    !.stack = Append(Advance(@), Activation(neighbor, NoVertex)),
                                    !.visited = @ \cup {neighbor},
                                    !.result = Append(@, neighbor)]
                     /\ graph' = Touch(graph, neighbor)
                ELSE /\ frame' = [frame EXCEPT !.stack = Advance(@)]
                     /\ graph' = graph
    /\ UNCHANGED <<directed, vertices, last, ret, driver>>

dfs_exit ==
    /\ Running("dfs")
    /\ frame.stack = <<>>
    /\ Return(List(frame.result))
    /\ UNCHANGED <<directed, vertices, graph, last, driver>>

(* shortest_path_bfs *)
shortest_path_bfs_call(start, end) ==
    /\ frame = Idle
    /\ last' = Call("shortest_path_bfs", start, end, 0)
    /\ IF start = end
       THEN Return(List(<<start>>))
       ELSE /\ frame' = [pc |-> "shortest_path_bfs", end |-> end,
                         queue |-> <<<<start, <<start>>>>>>, visited |-> {start}]
            /\ ret' = None
    /\ UNCHANGED <<directed, vertices, graph, driver>>

shortest_path_bfs_iter ==
    /\ Running("shortest_path_bfs")
    /\ frame.queue # <<>>
    /\ LET vertex == Head(frame.queue)[1]
           path == Head(frame.queue)[2]
           s == sp_scan(Lookup(graph, vertex), frame.end, path, frame.visited, Tail(frame.queue))
       IN  /\ graph' = Touch(graph, vertex)
           /\ IF s.found
              THEN Return(List(s.path))
              ELSE /\ frame' = [frame EXCEPT !.queue = s.queue, !.visited = s.visited]
                   /\ ret' = ret
    /\ UNCHANGED <<directed, vertices, last, driver>>

shortest_path_bfs_exit ==
    /\ Running("shortest_path_bfs")
    /\ frame.queue = <<>>
    /\ Return(None)
    /\ UNCHANGED <<directed, vertices, graph, last, driver>>

(* dijkstra *)
dijkstra_call(start, end) ==
    /\ frame = Idle
    /\ frame' = [pc |-> "dijkstra", start |-> start, end |-> end, broke |-> FALSE,
                 distances |-> dj_init(vertices, start), previous |-> EmptyGraph,
                 pq |-> <<<<0, start>>>>, visited |-> {}]
    /\ last' = Call("dijkstra", start, end, 0)
    /\ ret' = None
    /\ UNCHANGED <<directed, vertices, graph, driver>>

dijkstra_iter ==
    /\ Running("dijkstra")
    /\ frame.pq # <<>> /\ ~frame.broke
    /\ LET i == pq_min(frame.pq)
           current_dist == frame.pq[i][1]
           current == frame.pq[i][2]
           popped == RemoveAt(frame.pq, i)
       IN  IF current \in frame.visited
           THEN /\ frame' = [frame EXCEPT !.pq = popped]
                /\ UNCHANGED <<graph, ret>>
           ELSE IF Truthy(frame.end) /\ current = frame.end
           THEN /\ frame' = [frame EXCEPT !.pq = popped, !.visited = @ \cup {current},
                                          !.broke = TRUE]
                /\ UNCHANGED <<graph, ret>>
           ELSE LET st == dj_scan(Lookup(graph, current), current_dist, current,
                                  [distances |-> frame.distances,
                                   previous |-> frame.previous,
                                   pq |-> popped, error |-> FALSE])
                IN  /\ graph' = Touch(graph, current)
                    /\ IF st.error
                       THEN Return(KeyError)
                       ELSE /\ frame' = [frame EXCEPT !.distances = st.distances,
                                                      !.previous = st.previous,
                                                      !.pq = st.pq,
                                                      !.visited = @ \cup {current}]
                            /\ ret' = ret
    /\ UNCHANGED <<directed, vertices, last, driver>>

dijkstra_exit ==
    /\ Running("dijkstra")
    /\ frame.pq = <<>> \/ frame.broke
    /\ Return(IF Truthy(frame.end)
              THEN IF frame.end \notin DOMAIN frame.distances THEN KeyError
                   ELSE IF frame.distances[frame.end] = Infinity
                   THEN Pair(FALSE, <<>>, Infinity)
                   ELSE Pair(TRUE,
                             Reverse(Append(dj_walk(frame.previous, frame.end, <<>>),
                                            frame.start)),
                             frame.distances[frame.end])
              ELSE Dist(frame.distances))
    /\ UNCHANGED <<directed, vertices, graph, last, driver>>

(* has_cycle; order is what the loop over self.vertices has still to take *)
has_cycle_call(order) ==
    /\ frame = Idle
    /\ frame' = [pc |-> "has_cycle", order |-> order, stack |-> <<>>,
                 visited |-> {}, rec_stack |-> {}]
    /\ last' = Call("has_cycle", NoVertex, NoVertex, 0)
    /\ ret' = None
    /\ UNCHANGED <<directed, vertices, graph, driver>>

\* has_cycle_util(vertex, parent) is entered
has_cycle_enter(vertex, parent) ==
    /\ frame' = [frame EXCEPT
                    !.order = IF frame.stack = <<>> THEN Tail(@) ELSE @,
                    !.stack = Append(IF frame.stack = <<>> THEN @ ELSE Advance(@),
                                     Activation(vertex, parent)),
                    !.visited = @ \cup {vertex},
                    !.rec_stack = IF directed THEN @ \cup {vertex} ELSE @]
    /\ graph' = Touch(graph, vertex)
    /\ ret' = ret

has_cycle_iter ==
    /\ Running("has_cycle")
    /\ IF frame.stack = <<>>
       THEN /\ frame.order # <<>>
            /\ IF Head(frame.order) \notin frame.visited
               THEN has_cycle_enter(Head(frame.order), NoParent)
               ELSE /\ frame' = [frame EXCEPT !.order = Tail(@)]
                    /\ UNCHANGED <<graph, ret>>
       ELSE IF Exhausted(frame.stack)
       THEN /\ frame' = [frame EXCEPT
                           !.stack = Pop(@),
                           !.rec_stack = IF directed THEN @ \ {Top(frame.stack).vertex} ELSE @]
            /\ UNCHANGED <<graph, ret>>
       ELSE LET neighbor == NextEntry(frame.stack)[1]
            IN  IF neighbor \notin frame.visited
                THEN has_cycle_enter(neighbor, Top(frame.stack).vertex)
                ELSE IF (directed /\ neighbor \in frame.rec_stack)
                         \/ (~directed /\ neighbor # Top(frame.stack).parent)
                THEN Return(Bool(TRUE)) /\ graph' = graph
                ELSE /\ frame' = [frame EXCEPT !.stack = Advance(@)]
                     /\ UNCHANGED <<graph, ret>>
    /\ UNCHANGED <<directed, vertices, last, driver>>

has_cycle_exit ==
    /\ Running("has_cycle")
    /\ frame.stack = <<>> /\ frame.order = <<>>
    /\ Return(Bool(FALSE))
    /\ UNCHANGED <<directed, vertices, graph, last, driver>>

(* topological_sort *)
topological_sort_call(order) ==
    /\ frame = Idle
    /\ last' = Call("topological_sort", NoVertex, NoVertex, 0)
    /\ IF ~directed
       THEN Return(ValueError)
       ELSE /\ frame' = [pc |-> "topological_sort", order |-> order, stack |-> <<>>,
                         visited |-> {}, result |-> <<>>]
            /\ ret' = None
    /\ UNCHANGED <<directed, vertices, graph, driver>>

topological_sort_enter(vertex) ==
    /\ frame' = [frame EXCEPT
                    !.order = IF frame.stack = <<>> THEN Tail(@) ELSE @,
                    !.stack = Append(IF frame.stack = <<>> THEN @ ELSE Advance(@),
                                     Activation(vertex, NoVertex)),
                    !.visited = @ \cup {vertex}]
    /\ graph' = Touch(graph, vertex)

topological_sort_iter ==
    /\ Running("topological_sort")
    /\ IF frame.stack = <<>>
       THEN /\ frame.order # <<>>
            /\ IF Head(frame.order) \notin frame.visited
               THEN topological_sort_enter(Head(frame.order))
               ELSE frame' = [frame EXCEPT !.order = Tail(@)] /\ graph' = graph
       ELSE IF Exhausted(frame.stack)
       THEN /\ frame' = [frame EXCEPT !.stack = Pop(@),
                                      !.result = Append(@, Top(frame.stack).vertex)]
            /\ graph' = graph
       ELSE LET neighbor == NextEntry(frame.stack)[1]
            IN  IF neighbor \notin frame.visited
                THEN topological_sort_enter(neighbor)
                ELSE frame' = [frame EXCEPT !.stack = Advance(@)] /\ graph' = graph
    /\ UNCHANGED <<directed, vertices, last, ret, driver>>

topological_sort_exit ==
    /\ Running("topological_sort")
    /\ frame.stack = <<>> /\ frame.order = <<>>
    /\ Return(List(Reverse(frame.result)))
    /\ UNCHANGED <<directed, vertices, graph, last, driver>>

(* is_bipartite *)
is_bipartite_call(order) ==
    /\ frame = Idle
    /\ frame' = [pc |-> "is_bipartite", order |-> order, queue |-> <<>>, color |-> EmptyGraph]
    /\ last' = Call("is_bipartite", NoVertex, NoVertex, 0)
    /\ ret' = None
    /\ UNCHANGED <<directed, vertices, graph, driver>>

is_bipartite_iter ==
    /\ Running("is_bipartite")
    /\ IF frame.queue = <<>>
       THEN /\ frame.order # <<>>
            /\ frame' = IF Head(frame.order) \in DOMAIN frame.color
                        THEN [frame EXCEPT !.order = Tail(@)]
                        ELSE [frame EXCEPT !.order = Tail(@),
                                           !.queue = <<Head(frame.order)>>,
                                           !.color = Store(@, Head(frame.order), 0)]
            /\ UNCHANGED <<graph, ret>>
       ELSE LET vertex == Head(frame.queue)
                st == bp_scan(Lookup(graph, vertex), vertex,
                              [color |-> frame.color, queue |-> Tail(frame.queue), ok |-> TRUE])
            IN  /\ graph' = Touch(graph, vertex)
                /\ IF st.ok
                   THEN /\ frame' = [frame EXCEPT !.queue = st.queue, !.color = st.color]
                        /\ ret' = ret
                   ELSE Return(Bool(FALSE))
    /\ UNCHANGED <<directed, vertices, last, driver>>

is_bipartite_exit ==
    /\ Running("is_bipartite")
    /\ frame.queue = <<>> /\ frame.order = <<>>
    /\ Return(Bool(TRUE))
    /\ UNCHANGED <<directed, vertices, graph, last, driver>>

(* connected_components *)
connected_components_call(order) ==
    /\ frame = Idle
    /\ frame' = [pc |-> "connected_components", order |-> order, stack |-> <<>>,
                 visited |-> {}, components |-> <<>>]
    /\ last' = Call("connected_components", NoVertex, NoVertex, 0)
    /\ ret' = None
    /\ UNCHANGED <<directed, vertices, graph, driver>>

\* dfs(vertex, component) is entered; component is the last list of components
connected_components_enter(vertex) ==
    /\ frame' = [frame EXCEPT
                    !.order = IF frame.stack = <<>> THEN Tail(@) ELSE @,
                    !.stack = Append(IF frame.stack = <<>> THEN @ ELSE Advance(@),
                                     Activation(vertex, NoVertex)),
                    !.visited = @ \cup {vertex},
                    !.components =
                        IF frame.stack = <<>> THEN Append(@, <<vertex>>)
                        ELSE [frame.components EXCEPT
                                 ![Len(frame.components)] = Append(@, vertex)]]
    /\ graph' = Touch(graph, vertex)

connected_components_iter ==
    /\ Running("connected_components")
    /\ IF frame.stack = <<>>
       THEN /\ frame.order # <<>>
            /\ IF Head(frame.order) \notin frame.visited
               THEN connected_components_enter(Head(frame.order))
               ELSE frame' = [frame EXCEPT !.order = Tail(@)] /\ graph' = graph
       ELSE IF Exhausted(frame.stack)
       THEN frame' = [frame EXCEPT !.stack = Pop(@)] /\ graph' = graph
       ELSE LET neighbor == NextEntry(frame.stack)[1]
            IN  IF neighbor \notin frame.visited
                THEN connected_components_enter(neighbor)
                ELSE frame' = [frame EXCEPT !.stack = Advance(@)] /\ graph' = graph
    /\ UNCHANGED <<directed, vertices, last, ret, driver>>

connected_components_exit ==
    /\ Running("connected_components")
    /\ frame.stack = <<>> /\ frame.order = <<>>
    /\ Return(Lists(frame.components))
    /\ UNCHANGED <<directed, vertices, graph, last, driver>>

(* prim_mst of a WeightedGraph; rounds counts the turns of the outer loop *)
\* key[0] = 0 on the empty list of WeightedGraph(0) raises IndexError
IndexError == [kind |-> "error", val |-> "IndexError"]

prim_mst_call ==
    /\ frame = Idle
    /\ IF vertices = 0
       THEN Return(IndexError)
       ELSE /\ frame' = [pc |-> "prim_mst",
                         selected |-> [v \in 0..(vertices - 1) |-> FALSE],
                         parent |-> [v \in 0..(vertices - 1) |-> -1],
                         key |-> [v \in 0..(vertices - 1) |-> IF v = 0 THEN 0 ELSE Infinity],
                         mst_edges |-> <<>>,
                         rounds |-> 0]
            /\ ret' = None
    /\ last' = Call("prim_mst", -1, -1, 0)
    /\ UNCHANGED <<directed, vertices, graph, driver>>

prim_mst_iter ==
    /\ Running("prim_mst")
    /\ frame.rounds < vertices
    /\ frame' = pm_round(vertices, graph, frame)
    /\ UNCHANGED <<directed, vertices, graph, last, ret, driver>>

prim_mst_exit ==
    /\ Running("prim_mst")
    /\ frame.rounds >= vertices
    /\ Return(Edges(frame.mst_edges, frame.rounds))
    /\ UNCHANGED <<directed, vertices, graph, last, driver>>

\* SpecRun: a client builds a Graph on Core, or a WeightedGraph of up to three
\* vertices (of none too), and calls the methods, which then run step by step.
\* A call that is in progress keeps running: the steps are taken under weak
\* fairness.
MaxRunEdges == 2

\* the searches start from one vertex: the client builds every graph on Core,
\* so every other start is this one in a graph with its vertices renamed
Start == "A"

RunSizes == {0, 1, 2, 3}

InitRun ==
    /\ driver \in {"client", "matrix"}
    /\ directed \in (IF driver = "client" THEN BOOLEAN ELSE {FALSE})
    /\ vertices \in (IF driver = "client" THEN {{}} ELSE RunSizes)
    /\ graph = (IF driver = "client" THEN EmptyGraph ELSE ZeroMatrix(vertices))
    /\ last = (IF driver = "client" THEN Call("init", NoVertex, NoVertex, 0)
               ELSE Call("init", -1, -1, 0))
    /\ ret = None
    /\ frame = Idle

Build ==
    \/ /\ driver = "client"
       /\ \E u, v \in Core : EdgeCount < MaxRunEdges /\ add_edge(u, v, DefaultWeight)
    \/ /\ driver = "matrix"
       /\ \E u, v \in 0..(vertices - 1), w \in {1, 2} :
            /\ u < v
            /\ Cardinality(MatrixEdges(vertices, graph)) < MaxRunEdges
            /\ wg_add_edge(u, v, w)

Calls ==
    \/ /\ driver = "client"
       /\ \/ bfs_call(Start)
          \/ dfs_call(Start)
          \/ \E y \in Core : shortest_path_bfs_call(Start, y)
          \/ \E y \in Core \cup {NoVertex} : dijkstra_call(Start, y)
          \/ \E order \in Perms(vertices) : has_cycle_call(order)
          \/ \E order \in Perms(vertices) : topological_sort_call(order)
          \/ \E order \in Perms(vertices) : is_bipartite_call(order)
          \/ \E order \in Perms(vertices) : connected_components_call(order)
    \/ /\ driver = "matrix"
       /\ prim_mst_call

Steps ==
    \/ bfs_iter \/ bfs_exit
    \/ dfs_iter \/ dfs_exit
    \/ shortest_path_bfs_iter \/ shortest_path_bfs_exit
    \/ dijkstra_iter \/ dijkstra_exit
    \/ has_cycle_iter \/ has_cycle_exit
    \/ topological_sort_iter \/ topological_sort_exit
    \/ is_bipartite_iter \/ is_bipartite_exit
    \/ connected_components_iter \/ connected_components_exit
    \/ prim_mst_iter \/ prim_mst_exit

NextRun == (frame = Idle /\ Build) \/ Calls \/ Steps

SpecRun == InitRun /\ [][NextRun]_vars /\ WF_vars(Steps)

----------------------------------------------------------------------------
(* Definitions the properties are stated with *)

QueryOps == {"get_neighbors", "has_edge", "bfs", "dfs", "shortest_path_bfs"}

\* vertices reachable from start along adjacency entries (start included)
RECURSIVE Closure(_, _)
Closure(g, S) ==
    LET T == S \cup UNION {Targets(Lookup(g, x)) : x \in S}
    IN  IF T = S THEN S ELSE Closure(g, T)

Reach(g, start) == Closure(g, {start})

NoDuplicates(s) == \A i, j \in 1..Len(s) : s[i] = s[j] => i = j

\* least number of edges of a path from the set S to target, counted from k;
\* -1 when there is none
RECURSIVE HopsFrom(_, _, _, _)
HopsFrom(g, S, target, k) ==
    IF target \in S THEN k
    ELSE LET T == S \cup UNION {Targets(Lookup(g, x)) : x \in S}
         IN  IF T = S THEN -1 ELSE HopsFrom(g, T, target, k + 1)

MinHops(g, start, end) == HopsFrom(g, {start}, end, 0)

\* every consecutive pair of path is an adjacency entry
IsPath(g, path) ==
    \A i \in 1..(Len(path) - 1) : AnyTarget(Lookup(g, path[i]), path[i + 1])

\* the undirected unit-weight chain A-B-C-D-E and nothing else
IsChain ==
    /\ ~directed
    /\ \A x \in Vertex : \A i \in 1..Len(Lookup(graph, x)) : Lookup(graph, x)[i][2] = 1
    /\ Len(Lookup(graph, "A")) = 1 /\ Targets(Lookup(graph, "A")) = {"B"}
    /\ Len(Lookup(graph, "B")) = 2 /\ Targets(Lookup(graph, "B")) = {"A", "C"}
    /\ Len(Lookup(graph, "C")) = 2 /\ Targets(Lookup(graph, "C")) = {"B", "D"}
    /\ Len(Lookup(graph, "D")) = 2 /\ Targets(Lookup(graph, "D")) = {"C", "E"}
    /\ Len(Lookup(graph, "E")) = 1 /\ Targets(Lookup(graph, "E")) = {"D"}

\* every vertex the graph knows of, and x
AllVertices(g, verts, x) ==
    verts \cup DOMAIN g \cup UNION {Targets(g[y]) : y \in DOMAIN g} \cup {x}

Minimum(S) == CHOOSE m \in S : \A n \in S : m <= n

\* one round of relaxation of every adjacency entry
RelaxAll(g, D) ==
    [v \in DOMAIN D |->
        LET via == UNION {{D[u] + Lookup(g, u)[i][2] :
                             i \in {j \in 1..Len(Lookup(g, u)) : Lookup(g, u)[j][1] = v}} :
                          u \in {y \in DOMAIN D : D[y] # Infinity}}
            cand == via \cup (IF D[v] # Infinity THEN {D[v]} ELSE {})
        IN  IF cand = {} THEN Infinity ELSE Minimum(cand)]

RECURSIVE RelaxFix(_, _)
RelaxFix(g, D) ==
    LET E == RelaxAll(g, D) IN IF E = D THEN D ELSE RelaxFix(g, E)

\* least total weight of a path from start to each vertex of V (Infinity: none)
MinDist(g, V, start) ==
    RelaxFix(g, [v \in V |-> IF v = start THEN 0 ELSE Infinity])

\* the totals that a choice of one entry per step of path can give
RECURSIVE PathSums(_, _, _, _)
PathSums(g, path, i, S) ==
    IF i >= Len(path) THEN S
    ELSE LET list == Lookup(g, path[i])
             ws == {list[j][2] : j \in {k \in 1..Len(list) : list[k][1] = path[i + 1]}}
         IN  PathSums(g, path, i + 1, {t + w : t \in S, w \in ws})

\* the graph the main program builds with UndirectedExample
IsUndirectedExample ==
    /\ ~directed
    /\ DOMAIN graph = Vertex
    /\ graph["A"] = << <<"B", 1>>, <<"C", 2>> >>
    /\ graph["B"] = << <<"A", 1>>, <<"D", 3>> >>
    /\ graph["C"] = << <<"A", 2>>, <<"D", 1>> >>
    /\ graph["D"] = << <<"B", 3>>, <<"C", 1>>, <<"E", 2>> >>
    /\ graph["E"] = << <<"D", 2>> >>

\* some vertex can be reached again from one of its own successors
HasDirectedCycle(g) ==
    \E x \in DOMAIN g : \E y \in Targets(g[x]) : x \in Reach(g, y)

\* an undirected graph as add_edge stores it, with no self-loop and no edge
\* added twice
IsSimpleUndirected(g) ==
    \A x \in DOMAIN g :
        /\ ~AnyTarget(g[x], x)
        /\ \A i, j \in 1..Len(g[x]) : g[x][i][1] = g[x][j][1] => i = j

\* a simple undirected graph is a forest when it has as many edges as
\* vertices less connected components
IsForest(g, verts) ==
    SumLen(g, DOMAIN g) \div 2 = Cardinality(verts) - Cardinality({Reach(g, x) : x \in verts})

\* position of x in the sequence s, 0 when absent
Index(s, x) ==
    IF \E i \in 1..Len(s) : s[i] = x THEN CHOOSE i \in 1..Len(s) : s[i] = x ELSE 0

Before(s, x, y) == Index(s, x) > 0 /\ Index(s, y) > 0 /\ Index(s, x) < Index(s, y)

\* the directed graph the main program builds with DagExample
IsDagExample ==
    /\ directed
    /\ vertices = {"A", "B", "C", "D", "E", "F"}
    /\ DOMAIN graph \subseteq vertices
    /\ Lookup(graph, "A") = << <<"C", 1>> >>
    /\ Lookup(graph, "B") = << <<"C", 1>>, <<"D", 1>> >>
    /\ Lookup(graph, "C") = << <<"E", 1>> >>
    /\ Lookup(graph, "D") = << <<"F", 1>> >>
    /\ Lookup(graph, "E") = << <<"F", 1>> >>
    /\ Lookup(graph, "F") = <<>>

\* the directed diamond A->B, A->C, B->D, C->D
IsDiamond ==
    /\ directed
    /\ vertices = {"A", "B", "C", "D"}
    /\ Lookup(graph, "A") = << <<"B", 1>>, <<"C", 1>> >>
    /\ Lookup(graph, "B") = << <<"D", 1>> >>
    /\ Lookup(graph, "C") = << <<"D", 1>> >>
    /\ Lookup(graph, "D") = <<>>

\* some assignment of two colours gives the ends of every adjacency entry
\* different colours; the direction of the entries plays no part
TwoColourable(g, verts) ==
    \E c \in [verts \cup DOMAIN g -> {0, 1}] :
        \A x \in DOMAIN g : \A y \in Targets(g[x]) : c[x] # c[y]

\* the undirected cycle built from the edge list script, and nothing else
IsCycleOf(script) ==
    /\ ~directed
    /\ Cardinality(vertices) = Len(script)
    /\ DOMAIN graph = vertices
    /\ \A i \in 1..Len(script) :
         /\ AnyTarget(graph[script[i][1]], script[i][2])
         /\ Len(graph[script[i][1]]) = 2

\* the vertices joined to the ones of S by the pairs of E
RECURSIVE Joined(_, _)
Joined(E, S) ==
    LET T == S \cup {e[2] : e \in {f \in E : f[1] \in S}}
                 \cup {e[1] : e \in {f \in E : f[2] \in S}}
    IN  IF T = S THEN S ELSE Joined(E, T)

\* the pairs of E join all of 0..V-1
Spans(V, E) == Joined(E, {0}) = 0..(V - 1)

RECURSIVE TotalWeight(_, _)
TotalWeight(m, E) ==
    IF E = {} THEN 0
    ELSE LET e == CHOOSE f \in E : TRUE
         IN  m[e[1]][e[2]] + TotalWeight(m, E \ {e})

\* the spanning trees of the matrix m: V-1 of its pairs that join everything
SpanningTrees(V, m) ==
    {T \in SUBSET MatrixEdges(V, m) : Cardinality(T) = V - 1 /\ Spans(V, T)}

\* an edge <<p, u, w>> as the pair with the lesser end first
AsPair(e) == IF e[1] < e[2] THEN <<e[1], e[2]>> ELSE <<e[2], e[1]>>

----------------------------------------------------------------------------
(* Properties of the store, under Spec *)

\* C1: in an undirected Graph, right after add_edge(u, v, w), has_edge(u, v)
\* and has_edge(v, u) are true, u's list holds (v, w) and v's list holds (u, w).
C1_AddEdgeBothWays ==
    (last.op = "add_edge" /\ ~directed) =>
        /\ has_edge_return(graph, last.u, last.v)
        /\ has_edge_return(graph, last.v, last.u)
        /\ Count(Lookup(graph, last.u), <<last.v, last.w>>) >= 1
        /\ Count(Lookup(graph, last.v), <<last.u, last.w>>) >= 1

\* add_edge between two different vertices of an undirected Graph that already
\* had an entry in u's list
C1_Witness ==
    /\ last.op = "add_edge" /\ ~directed /\ last.u # last.v
    /\ Len(Lookup(graph, last.u)) >= 2
    /\ Lookup(graph, last.u)[1] # <<last.v, last.w>>

\* C2: in every state of an undirected Graph the adjacency map is symmetric:
\* u's list holds (v, w) as many times as v's list holds (u, w).
C2_UndirectedSymmetric ==
    ~directed =>
        \A u, v \in Core : \A w \in Weights :
            Count(Lookup(graph, u), <<v, w>>) = Count(Lookup(graph, v), <<u, w>>)

\* an undirected Graph after a removal that left a self-loop stored
C2_Witness ==
    /\ ~directed
    /\ last.op \in {"remove_edge", "remove_vertex"}
    /\ \E u \in Core : has_edge_return(graph, u, u)

\* C3 (as claimed): every key of the adjacency map and every stored neighbour
\* is a member of vertices.
C3_KeysAndNeighboursInVertices ==
    /\ DOMAIN graph \subseteq vertices
    /\ \A x \in DOMAIN graph : Targets(graph[x]) \subseteq vertices

\* C4: after remove_vertex(v), v is not in vertices, v is not a key, no list
\* holds an entry targeting v, and every other list keeps its entries that do
\* not target v, in their order.
C4_RemoveVertex ==
    [][last'.op = "remove_vertex" =>
        LET v == last'.u
            NotV(e) == e[1] # v
        IN  /\ v \notin vertices'
            /\ vertices' = vertices \ {v}
            /\ v \notin DOMAIN graph'
            /\ \A y \in DOMAIN graph' : ~AnyTarget(graph'[y], v)
            /\ \A y \in Core \ {v} : Lookup(graph', y) = SelectSeq(Lookup(graph, y), NotV)
    ]_vars

\* remove_vertex has acted and an edge between other vertices is still stored
C4_Witness ==
    /\ last.op = "remove_vertex"
    /\ last.u \notin vertices
    /\ \E y \in Core : Len(Lookup(graph, y)) >= 1

\* C5: add_vertex(v) when v is already present leaves vertices and every
\* adjacency list, v's included, unchanged, and returns normally.
C5_AddVertexIdempotent ==
    [][(last'.op = "add_vertex" /\ last'.u \in vertices) =>
        /\ vertices' = vertices
        /\ \A y \in Core : Lookup(graph', y) = Lookup(graph, y)
        /\ ret'.kind = "none"
    ]_vars

\* add_vertex has acted on a vertex that has edges
C5_Witness ==
    /\ last.op = "add_vertex"
    /\ Len(Lookup(graph, last.u)) >= 1

\* C6: remove_edge(u, v) removes every entry targeting v from u's list and,
\* undirected, every entry targeting u from v's list; has_edge is false
\* afterwards; vertices is unchanged; every other entry keeps its place; in
\* directed mode v's list is untouched.
C6_RemoveEdge ==
    [][last'.op = "remove_edge" =>
        LET u == last'.u
            v == last'.v
            NotU(e) == e[1] # u
            NotV(e) == e[1] # v
            NotUV(e) == e[1] # u /\ e[1] # v
        IN  /\ ~has_edge_return(graph', u, v)
            /\ ~directed => ~has_edge_return(graph', v, u)
            /\ vertices' = vertices
            /\ ret'.kind = "none"
            /\ \A y \in Core \ {u, v} : Lookup(graph', y) = Lookup(graph, y)
            /\ directed /\ u # v =>
                 /\ Lookup(graph', u) = SelectSeq(Lookup(graph, u), NotV)
                 /\ Lookup(graph', v) = Lookup(graph, v)
            /\ ~directed /\ u # v =>
                 /\ Lookup(graph', u) = SelectSeq(Lookup(graph, u), NotV)
                 /\ Lookup(graph', v) = SelectSeq(Lookup(graph, v), NotU)
            /\ u = v => Lookup(graph', u) = SelectSeq(Lookup(graph, u), NotUV)
    ]_vars

\* remove_edge(u, v) has acted on a directed Graph and the edge v -> u is kept
C6_Witness ==
    /\ last.op = "remove_edge" /\ directed /\ last.u # last.v
    /\ has_edge_return(graph, last.v, last.u)
    /\ Len(Lookup(graph, last.u)) >= 1

\* C7: a query of a vertex x that is not in vertices is no error:
\* get_neighbors(x) returns the empty list, has_edge(x, y) returns false,
\* bfs(x) and dfs(x) return [x].
C7_UnknownVertexQueries ==
    last.u \notin vertices =>
        /\ last.op = "get_neighbors" => ret.kind = "adj" /\ ret.val = <<>>
        /\ last.op = "has_edge" => ret.kind = "bool" /\ ret.val = FALSE
        /\ last.op \in {"bfs", "dfs"} => ret.kind = "list" /\ ret.val = <<last.u>>

\* a traversal from an unknown vertex of a Graph that stores edges
C7_Witness ==
    /\ last.op \in {"bfs", "dfs"}
    /\ last.u \notin vertices
    /\ vertices # {}
    /\ \E y \in Core : Len(Lookup(graph, y)) >= 1

\* C8 (as claimed): every query leaves vertices, the key set of the adjacency
\* map and every adjacency list as they were.
C8_QueriesLeaveStoreUnchanged ==
    [][last'.op \in QueryOps => vertices' = vertices /\ graph' = graph]_vars

----------------------------------------------------------------------------
(* Properties of the traversals, under SpecPaths *)

\* C9: bfs(start) and dfs(start) each return a sequence that begins with
\* start, holds every vertex reachable from start exactly once and no other
\* vertex; so both hold the same set of vertices.
C9_TraversalVisitsReachable ==
    last.op \in {"bfs", "dfs"} =>
        /\ ret.kind = "list"
        /\ Len(ret.val) >= 1
        /\ ret.val[1] = last.u
        /\ NoDuplicates(ret.val)
        /\ Range(ret.val) = Reach(graph, last.u)
        /\ Range(bfs_return(graph, last.u)) = Range(dfs_return(graph, last.u))

\* a traversal that reached at least two vertices, one of them with a
\* self-loop, and left a vertex that has edges unreached
C9_Witness ==
    /\ last.op \in {"bfs", "dfs"}
    /\ Len(ret.val) >= 2
    /\ \E x \in Range(ret.val) : has_edge_return(graph, x, x)
    /\ \E y \in Core \ Range(ret.val) : Len(Lookup(graph, y)) >= 1

\* C10: a path returned by shortest_path_bfs(start, end) begins with start,
\* ends with end, follows adjacency entries, and has the least number of edges
\* of any path from start to end; on the undirected unit-weight chain
\* A-B-C-D-E the call (A, E) returns [A, B, C, D, E].
C10_ShortestPathBfs ==
    last.op = "shortest_path_bfs" =>
        /\ ret.kind = "list" =>
             /\ Len(ret.val) >= 1
             /\ ret.val[1] = last.u
             /\ ret.val[Len(ret.val)] = last.v
             /\ IsPath(graph, ret.val)
             /\ Len(ret.val) - 1 = MinHops(graph, last.u, last.v)
        /\ (IsChain /\ last.u = "A" /\ last.v = "E") =>
             /\ ret.kind = "list"
             /\ ret.val = <<"A", "B", "C", "D", "E">>

\* shortest_path_bfs(A, E) has returned on the chain
C10_Witness ==
    /\ last.op = "shortest_path_bfs"
    /\ IsChain /\ last.u = "A" /\ last.v = "E"
    /\ ret.kind = "list"

\* shortest_path_bfs returned the one-edge path although a two-edge path
\* through the first neighbour exists
C10_WitnessShortcut ==
    /\ last.op = "shortest_path_bfs"
    /\ ret.kind = "list" /\ Len(ret.val) = 2 /\ last.u # last.v
    /\ LET first == Lookup(graph, last.u)[1][1]
       IN  /\ first \notin {last.u, last.v}
           /\ has_edge_return(graph, first, last.v)

\* C11: shortest_path_bfs(start, end) returns [start] when start = end, also
\* for an unknown start without a self-loop; for start # end it returns None
\* exactly when end is not reachable from start; it always returns.
C11_ShortestPathNoneIffUnreachable ==
    last.op = "shortest_path_bfs" =>
        /\ ret.kind \in {"none", "list"}
        /\ last.u = last.v => ret.kind = "list" /\ ret.val = <<last.u>>
        /\ last.u # last.v =>
             (ret.kind = "none" <=> last.v \notin Reach(graph, last.u))

\* shortest_path_bfs returned None for a start that has edges
C11_Witness ==
    /\ last.op = "shortest_path_bfs"
    /\ last.u # last.v
    /\ ret.kind = "none"
    /\ Len(Lookup(graph, last.u)) >= 1

\* shortest_path_bfs(x, x) returned for an x that no add_edge has named
C11_WitnessUnknownStart ==
    /\ last.op = "shortest_path_bfs"
    /\ last.u = last.v
    /\ last.u \notin vertices
    /\ vertices # {}

\* the place in the sequence r of the first vertex whose list holds x
Discoverer(g, r, x) ==
    CHOOSE k \in 1..Len(r) :
        /\ AnyTarget(Lookup(g, r[k]), x)
        /\ \A h \in 1..(k - 1) : ~AnyTarget(Lookup(g, r[h]), x)

\* the place of the first entry of list that targets x
FirstEntry(list, x) ==
    CHOOSE k \in 1..Len(list) : list[k][1] = x /\ \A h \in 1..(k - 1) : list[h][1] # x

\* C27: bfs(start) lists the vertices by non-decreasing number of hops from
\* start; a vertex stands after the vertex whose list it was first found in,
\* vertices found from an earlier vertex stand before those found from a
\* later one, and vertices found from the same vertex stand in the order of
\* that vertex's list.  These rules fix the whole order.
C27_BfsLevelOrder ==
    last.op = "bfs" =>
        LET r == ret.val
        IN  /\ ret.kind = "list"
            /\ \A i, j \in 1..Len(r) :
                 i < j => MinHops(graph, last.u, r[i]) <= MinHops(graph, last.u, r[j])
            /\ \A i \in 2..Len(r) : Discoverer(graph, r, r[i]) < i
            /\ \A i, j \in 2..Len(r) :
                 i < j =>
                    LET p == Discoverer(graph, r, r[i])
                        q == Discoverer(graph, r, r[j])
                    IN  /\ p <= q
                        /\ p = q => FirstEntry(Lookup(graph, r[p]), r[i])
                                        < FirstEntry(Lookup(graph, r[p]), r[j])

\* bfs returned two vertices that were both found from start, whose list
\* has two entries or more
C27_Witness ==
    /\ last.op = "bfs" /\ ret.kind = "list"
    /\ Len(ret.val) >= 3
    /\ Len(Lookup(graph, last.u)) >= 2
    /\ MinHops(graph, last.u, ret.val[2]) = 1
    /\ MinHops(graph, last.u, ret.val[3]) = 1

\* bfs returned a vertex two hops from start
C27_WitnessTwoHops ==
    /\ last.op = "bfs" /\ ret.kind = "list"
    /\ \E i \in 1..Len(ret.val) : MinHops(graph, last.u, ret.val[i]) = 2

----------------------------------------------------------------------------
(* Properties of dijkstra, under SpecWeighted *)

C13_ExampleWeightSix ==
    (last.op = "dijkstra" /\ last.u = "A" /\ last.v = "E" /\ IsUndirectedExample) =>
        /\ ret.kind = "pair"
        /\ ret.found
        /\ ret.dist = 6
        /\ MinDist(graph, Vertex, "A")["E"] = 6

\* C13 (amended): on the undirected example dijkstra(A, E) returns the path
\* [A, C, D, E] of total weight 5, and 5 is the least total weight from A to E.
C13_ExampleWeightFive ==
    (last.op = "dijkstra" /\ last.u = "A" /\ last.v = "E" /\ IsUndirectedExample) =>
        /\ ret.kind = "pair"
        /\ ret.found
        /\ ret.path = <<"A", "C", "D", "E">>
        /\ ret.dist = 5
        /\ MinDist(graph, Vertex, "A")["E"] = 5

\* dijkstra(A, E) has returned on the undirected example
C13_Witness ==
    /\ last.op = "dijkstra" /\ last.u = "A" /\ last.v = "E"
    /\ IsUndirectedExample
    /\ ret.kind = "pair"

\* C14: without end, dijkstra(start) returns a mapping whose keys are vertices
\* and start; start maps to 0, a reachable vertex to the least total weight of
\* a path from start, an unreachable vertex to infinity.
C14_DijkstraAllDistances ==
    (last.op = "dijkstra" /\ last.v = NoVertex) =>
        /\ ret.kind = "dist"
        /\ DOMAIN ret.val = vertices \cup {last.u}
        /\ ret.val[last.u] = 0
        /\ \A v \in DOMAIN ret.val :
             /\ ret.val[v] = MinDist(graph, AllVertices(graph, vertices, last.u), last.u)[v]
             /\ v \notin Reach(graph, last.u) <=> ret.val[v] = Infinity

\* dijkstra(start) returned a mapping with an unreachable vertex and a vertex
\* at a positive distance
C14_Witness ==
    /\ last.op = "dijkstra" /\ last.v = NoVertex
    /\ ret.kind = "dist"
    /\ \E v \in DOMAIN ret.val : ret.val[v] = Infinity
    /\ \E v \in DOMAIN ret.val : ret.val[v] >= 1

\* C15 (as claimed): for an end that cannot be reached from start, also one
\* that is not in vertices, dijkstra(start, end) returns (None, infinity) and
\* shortest_path_bfs(start, end) returns None; neither raises.
C15_UnreachableIsSentinel ==
    (last.u # last.v /\ last.v \notin Reach(graph, last.u)) =>
        /\ (last.op = "dijkstra" /\ Truthy(last.v)) =>
             ret.kind = "pair" /\ ~ret.found /\ ret.dist = Infinity
        /\ last.op = "shortest_path_bfs" => ret.kind = "none"

\* C26 (as claimed): whenever an end vertex of the graph is given, the empty
\* string too, dijkstra(start, end) returns a (path, distance) pair; the
\* mapping of all distances is returned only when end is left out.
C26_EndGivenReturnsPair ==
    last.op = "dijkstra" =>
        /\ (last.v # NoVertex /\ last.v \in vertices) => ret.kind = "pair"
        /\ ret.kind = "dist" => last.v = NoVertex

----------------------------------------------------------------------------
(* Properties of has_cycle and topological_sort, under SpecStruct; the order *)
(* of the outer loop is any permutation of vertices                          *)

\* C16: on a directed graph has_cycle() returns true exactly when the graph
\* has a directed cycle (a self-loop is one), whatever the order of the outer
\* loop and the number of separate parts; a diamond is not reported.
C16_DirectedHasCycle ==
    (last.op = "has_cycle" /\ directed) =>
        /\ ret.kind = "bool"
        /\ ret.val = HasDirectedCycle(graph)
        /\ IsDiamond => ret.val = FALSE

\* has_cycle returned false on the diamond
C16_Witness == last.op = "has_cycle" /\ IsDiamond /\ ret.kind = "bool" /\ ~ret.val

\* has_cycle returned true for a cycle of two vertices next to a separate vertex
C16_WitnessCycle ==
    /\ last.op = "has_cycle" /\ directed /\ ret.kind = "bool" /\ ret.val
    /\ \E x \in vertices : Lookup(graph, x) = <<>> /\ \A y \in vertices : ~AnyTarget(Lookup(graph, y), x)
    /\ \A x \in vertices : ~AnyTarget(Lookup(graph, x), x)

\* C17: on an undirected graph with no parallel edge and no self-loop
\* has_cycle() returns true exactly when the graph is not a forest, whatever
\* the order of the outer loop; a graph of one edge u-v gives false.
C17_UndirectedHasCycle ==
    (last.op = "has_cycle" /\ ~directed /\ IsSimpleUndirected(graph)) =>
        /\ ret.kind = "bool"
        /\ ret.val = ~IsForest(graph, vertices)
        /\ SumLen(graph, DOMAIN graph) = 2 => ret.val = FALSE

\* has_cycle returned true on a triangle
C17_Witness ==
    /\ last.op = "has_cycle" /\ ~directed /\ IsSimpleUndirected(graph)
    /\ ret.kind = "bool" /\ ret.val
    /\ SumLen(graph, DOMAIN graph) = 6

\* has_cycle returned false on a graph of one edge
C17_WitnessSingleEdge ==
    /\ last.op = "has_cycle" /\ ~directed /\ IsSimpleUndirected(graph)
    /\ ret.kind = "bool" /\ ~ret.val
    /\ SumLen(graph, DOMAIN graph) = 2

\* the undirected graph whose only edges are add_edge(u, v) called twice
IsDoubleEdge ==
    /\ ~directed
    /\ \E u, v \in vertices :
         /\ u # v
         /\ vertices = {u, v}
         /\ DOMAIN graph = {u, v}
         /\ graph[u] = << <<v, DefaultWeight>>, <<v, DefaultWeight>> >>
         /\ graph[v] = << <<u, DefaultWeight>>, <<u, DefaultWeight>> >>

C19_TopologicalSort ==
    (last.op = "topological_sort" /\ directed /\ ~HasDirectedCycle(graph)) =>
        /\ ret.kind = "list"
        /\ Range(ret.val) = vertices
        /\ Len(ret.val) = Cardinality(vertices)
        /\ \A u \in DOMAIN graph : \A v \in Targets(graph[u]) : Before(ret.val, u, v)

\* topological_sort returned an order for an acyclic graph of two edges or more
C19_Witness ==
    /\ last.op = "topological_sort" /\ directed /\ ~HasDirectedCycle(graph)
    /\ ret.kind = "list"
    /\ Len(ret.val) >= 3
    /\ SumLen(graph, DOMAIN graph) >= 2

\* C20 (as claimed): on the directed example has_cycle() returns false and
\* topological_sort() returns an order with A and B before C and D, C and D
\* before E, and E before F.
C20_ExampleOrderLayers ==
    IsDagExample =>
        /\ last.op = "has_cycle" => ret.kind = "bool" /\ ret.val = FALSE
        /\ last.op = "topological_sort" =>
             /\ ret.kind = "list"
             /\ \A x \in {"A", "B"} : \A y \in {"C", "D"} : Before(ret.val, x, y)
             /\ \A x \in {"C", "D"} : Before(ret.val, x, "E")
             /\ Before(ret.val, "E", "F")

\* C20 (amended): on the directed example has_cycle() returns false and
\* topological_sort() returns an order of the six vertices with A before C,
\* B before C and D, C before E, and D and E before F.
C20_ExampleOrderEdges ==
    IsDagExample =>
        /\ last.op = "has_cycle" => ret.kind = "bool" /\ ret.val = FALSE
        /\ last.op = "topological_sort" =>
             /\ ret.kind = "list"
             /\ Len(ret.val) = 6
             /\ Before(ret.val, "A", "C")
             /\ Before(ret.val, "B", "C")
             /\ Before(ret.val, "B", "D")
             /\ Before(ret.val, "C", "E")
             /\ Before(ret.val, "D", "F")
             /\ Before(ret.val, "E", "F")

\* topological_sort returned on the directed example with D ahead of A
C20_Witness ==
    /\ IsDagExample
    /\ last.op = "topological_sort"
    /\ ret.kind = "list"
    /\ Before(ret.val, "D", "A")

\* has_cycle returned on the directed example
C20_WitnessHasCycle == IsDagExample /\ last.op = "has_cycle" /\ ret.kind = "bool"

\* C21: topological_sort() on an undirected graph raises ValueError whatever
\* the graph holds and leaves vertices and the adjacency map as they were; on a
\* directed graph it returns a list and never that error.
C21_TopologicalSortDirectedOnly ==
    [][last'.op = "topological_sort" =>
          IF directed
          THEN ret'.kind = "list"
          ELSE ret' = ValueError /\ graph' = graph /\ vertices' = vertices]_vars

\* topological_sort raised on an undirected graph that has edges
C21_Witness ==
    /\ last.op = "topological_sort" /\ ~directed
    /\ ret = ValueError
    /\ SumLen(graph, DOMAIN graph) >= 4

\* topological_sort raised on the empty undirected graph
C21_WitnessEmpty ==
    last.op = "topological_sort" /\ ~directed /\ ret = ValueError /\ vertices = {}

\* topological_sort returned a list on a directed graph that has a cycle
C21_WitnessDirected ==
    last.op = "topological_sort" /\ directed /\ ret.kind = "list" /\ HasDirectedCycle(graph)

----------------------------------------------------------------------------
(* Properties of is_bipartite and connected_components, under SpecParts; the *)
(* order of the outer loop is any permutation of vertices                    *)

\* C22: on an undirected graph is_bipartite() returns true exactly when some
\* assignment of two colours gives the two ends of every edge different
\* colours, over all components; it is true on the cycles of four and of six
\* vertices and false on the cycles of three and of five.
C22_UndirectedBipartite ==
    (last.op = "is_bipartite" /\ ~directed) =>
        /\ ret.kind = "bool"
        /\ ret.val = TwoColourable(graph, vertices)
        /\ (IsCycleOf(Cycle4) \/ IsCycleOf(Cycle6)) => ret.val = TRUE
        /\ IsCycleOf(Cycle5) => ret.val = FALSE
        /\ \A x \in vertices : AnyTarget(Lookup(graph, x), x) => ret.val = FALSE

\* is_bipartite returned false on the cycle of five vertices
C22_Witness == last.op = "is_bipartite" /\ IsCycleOf(Cycle5) /\ ret.kind = "bool" /\ ~ret.val

\* is_bipartite returned true on the cycle of six vertices
C22_WitnessEven == last.op = "is_bipartite" /\ IsCycleOf(Cycle6) /\ ret.kind = "bool" /\ ret.val

\* is_bipartite returned false on a triangle next to nothing else
C22_WitnessTriangle ==
    /\ last.op = "is_bipartite" /\ ~directed /\ driver = "client"
    /\ IsSimpleUndirected(graph) /\ SumLen(graph, DOMAIN graph) = 6
    /\ ret.kind = "bool" /\ ~ret.val

\* the pairs <<i, j>> at which the vertex x stands in a list of lists
Places(lists, x) ==
    {p \in UNION {{<<i, j>> : j \in 1..Len(lists[i])} : i \in 1..Len(lists)} :
        lists[p[1]][p[2]] = x}

\* C23: connected_components() returns a partition of vertices, on a directed
\* graph too: every member of vertices stands at exactly one place of the
\* result and nothing else does; on an undirected graph a component is the
\* set of vertices a path joins to its first vertex, and a vertex without
\* edges is a component of its own.
C23_ComponentsPartition ==
    last.op = "connected_components" =>
        /\ ret.kind = "lists"
        /\ \A i \in 1..Len(ret.val) : ret.val[i] # <<>> /\ Range(ret.val[i]) \subseteq vertices
        /\ \A x \in vertices : Cardinality(Places(ret.val, x)) = 1
        /\ ~directed =>
             /\ \A i \in 1..Len(ret.val) : Range(ret.val[i]) = Reach(graph, ret.val[i][1])
             /\ \A x, y \in vertices :
                  (\E i \in 1..Len(ret.val) : {x, y} \subseteq Range(ret.val[i]))
                      <=> y \in Reach(graph, x)
             /\ \A x \in vertices :
                  Lookup(graph, x) = <<>> => \E i \in 1..Len(ret.val) : ret.val[i] = <<x>>

\* connected_components returned two components on an undirected graph, one
\* of them a vertex that add_vertex put there
C23_Witness ==
    /\ last.op = "connected_components" /\ ~directed
    /\ ret.kind = "lists"
    /\ Len(ret.val) = 2
    /\ \E i \in 1..2 : Len(ret.val[i]) = 1 /\ Lookup(graph, ret.val[i][1]) = <<>>
    /\ \E i \in 1..2 : Len(ret.val[i]) = 2

\* connected_components returned on a directed graph that has edges
C23_WitnessDirected ==
    /\ last.op = "connected_components" /\ directed
    /\ ret.kind = "lists"
    /\ SumLen(graph, DOMAIN graph) >= 2

\* C30 (as claimed): on a directed graph is_bipartite() returns, whatever the
\* order of the outer loop, true exactly when the graph with the directions
\* of its edges ignored can be given two colours.
C30_DirectedBipartite ==
    (last.op = "is_bipartite" /\ directed) =>
        /\ ret.kind = "bool"
        /\ ret.val = TwoColourable(graph, vertices)

----------------------------------------------------------------------------
(* Properties of prim_mst, under SpecMst *)

\* C24: on a connected WeightedGraph of V >= 1 vertices with positive weights
\* prim_mst() returns V-1 edges (p, u, w) with w = matrix[p][u]; they form a
\* spanning tree, and their total weight is the least total weight of a
\* spanning tree of the graph.
C24_PrimMinimumSpanningTree ==
    (last.op = "prim_mst" /\ Spans(vertices, MatrixEdges(vertices, graph))) =>
        LET T == {AsPair(ret.val[i]) : i \in 1..Len(ret.val)}
        IN  /\ ret.kind = "edges"
            /\ Len(ret.val) = vertices - 1
            /\ \A i \in 1..Len(ret.val) :
                 /\ ret.val[i][1] \in 0..(vertices - 1)
                 /\ ret.val[i][2] \in 0..(vertices - 1)
                 /\ ret.val[i][3] = graph[ret.val[i][1]][ret.val[i][2]]
            /\ T \in SpanningTrees(vertices, graph)
            /\ \A S \in SpanningTrees(vertices, graph) :
                 TotalWeight(graph, T) <= TotalWeight(graph, S)

\* prim_mst returned a tree on a connected graph that has a heavier spanning tree
C24_Witness ==
    /\ last.op = "prim_mst" /\ ret.kind = "edges"
    /\ vertices >= 4
    /\ Len(ret.val) = vertices - 1
    /\ \E S \in SpanningTrees(vertices, graph) :
         TotalWeight(graph, S) > TotalWeight(graph, {AsPair(ret.val[i]) : i \in 1..Len(ret.val)})

\* prim_mst returned on the graph of the main program
C24_WitnessExample ==
    /\ last.op = "prim_mst" /\ driver = "example"
    /\ Cardinality(MatrixEdges(vertices, graph)) = Len(MstExample)
    /\ ret.val = << <<0, 1, 2>>, <<1, 2, 3>>, <<1, 4, 5>>, <<0, 3, 6>> >>

\* C29 (as claimed): on every WeightedGraph of V >= 1 vertices, connected or
\* not, prim_mst() returns at most V-1 edges (p, u, w) with 0 <= p < V,
\* 0 <= u < V and w = matrix[p][u] > 0, and no vertex is the child u of two
\* of them.
C29_PrimWellFormed ==
    last.op = "prim_mst" =>
        /\ ret.kind = "edges"
        /\ Len(ret.val) <= vertices - 1
        /\ \A i \in 1..Len(ret.val) :
             /\ ret.val[i][1] \in 0..(vertices - 1)
             /\ ret.val[i][2] \in 0..(vertices - 1)
             /\ ret.val[i][3] = graph[At(vertices, ret.val[i][1])][At(vertices, ret.val[i][2])]
             /\ ret.val[i][3] > 0
        /\ \A i, j \in 1..Len(ret.val) : ret.val[i][2] = ret.val[j][2] => i = j

----------------------------------------------------------------------------
(* Further properties of the store, under Spec *)

\* C25: add_edge(u, v, w) only appends and never drops a duplicate: u and v
\* join vertices, (v, w) is appended at the end of u's list and, undirected
\* only, (u, w) at the end of v's list; every entry already stored keeps its
\* place, so repeated calls leave parallel entries; in directed mode the list
\* of v stays as it was and has_edge(v, u) does not become true.
C25_AddEdgeAppendsOnly ==
    [][last'.op = "add_edge" =>
          LET u == last'.u
              v == last'.v
              e == <<last'.v, last'.w>>
              back == <<last'.u, last'.w>>
          IN  /\ vertices' = vertices \cup {u, v}
              /\ \A x \in DOMAIN graph \ {u, v} : x \in DOMAIN graph' /\ graph'[x] = graph[x]
              /\ IF directed
                 THEN /\ DOMAIN graph' = DOMAIN graph \cup {u}
                      /\ graph'[u] = Append(Lookup(graph, u), e)
                      /\ u # v => /\ Lookup(graph', v) = Lookup(graph, v)
                                  /\ has_edge_return(graph', v, u) = has_edge_return(graph, v, u)
                 ELSE /\ DOMAIN graph' = DOMAIN graph \cup {u, v}
                      /\ IF u # v
                         THEN /\ graph'[u] = Append(Lookup(graph, u), e)
                              /\ graph'[v] = Append(Lookup(graph, v), back)
                         ELSE graph'[u] = Append(Append(Lookup(graph, u), e), back)
              /\ Count(graph'[u], e) > Count(Lookup(graph, u), e)]_vars

\* the same directed add_edge(u, v, w) made twice: two equal entries in u's
\* list and none from v to u
C25_Witness ==
    /\ last.op = "add_edge" /\ directed /\ last.u # last.v
    /\ Count(Lookup(graph, last.u), <<last.v, last.w>>) = 2
    /\ ~has_edge_return(graph, last.v, last.u)

\* the same undirected add_edge(u, v, w) made twice
C25_WitnessUndirected ==
    /\ last.op = "add_edge" /\ ~directed /\ last.u # last.v
    /\ Count(Lookup(graph, last.u), <<last.v, last.w>>) = 2
    /\ Count(Lookup(graph, last.v), <<last.u, last.w>>) = 2

----------------------------------------------------------------------------
(* Termination, under SpecRun *)

\* C28: every call runs to completion, on graphs with cycles, self-loops and
\* parallel edges too: a call of bfs, dfs, shortest_path_bfs, dijkstra (with
\* or without end), has_cycle, topological_sort, is_bipartite or
\* connected_components that is in progress returns in the end, and prim_mst
\* ends after exactly V turns of its outer loop: it returns its edges then,
\* except on WeightedGraph(0), where it raises IndexError before the first turn.
C28_EveryCallReturns ==
    /\ (frame # Idle) ~> (frame = Idle)
    /\ [](Running("prim_mst") => frame.rounds <= vertices)
    /\ []((last.op = "prim_mst" /\ frame = Idle) =>
            IF vertices = 0 THEN ret = IndexError
            ELSE ret.kind = "edges" /\ ret.rounds = vertices)

\* a search from Start has returned on an undirected graph whose two edges
\* are a self-loop at Start and an edge to another vertex, present twice
\* in each list it is in: a cycle, a self-loop and a parallel entry at once
C28_Witness ==
    /\ frame = Idle /\ driver = "client" /\ ~directed
    /\ last.op \in {"bfs", "dfs", "dijkstra"} /\ ret.kind # "none"
    /\ Count(Lookup(graph, Start), <<Start, DefaultWeight>>) = 2
    /\ \E x \in Core \ {Start} : Count(Lookup(graph, Start), <<x, DefaultWeight>>) = 1

\* is_bipartite has returned on a graph with two parallel edges
C28_WitnessParallel ==
    /\ frame = Idle /\ driver = "client" /\ last.op = "is_bipartite" /\ ret = Bool(TRUE)
    /\ \E x \in Core \ {Start} : Count(Lookup(graph, Start), <<x, DefaultWeight>>) = 2

\* prim_mst has returned on a graph of three vertices after three turns
C28_WitnessPrim ==
    /\ frame = Idle /\ driver = "matrix" /\ last.op = "prim_mst"
    /\ vertices = 3 /\ ret.kind = "edges" /\ ret.rounds = 3

====
